---- MODULE Spec2Model ----
(***************************************************************************)
(* A model of the DROP graph of dfms (src/dfms/drop.py): the status state  *)
(* machine of a DROP, the execStatus state machine of an AppDROP, the      *)
(* producer/consumer wiring with its back-references and event             *)
(* subscriptions, and the event-driven execution of BarrierAppDROPs.       *)
(*                                                                         *)
(* Every method call is a frame on the call stack of the thread that runs  *)
(* it.  A step of a thread executes the frame on top of its stack: one     *)
(* action per method (or per atomic part of a method, where another thread *)
(* can run between two parts).  A frame may push the frames of the calls   *)
(* it makes; an exception unwinds the stack to the nearest handler.        *)
(***************************************************************************)
EXTENDS Integers, Sequences, FiniteSets, TLC

\* ------------------------------------------------------------------------
\* Bounds of the model
\* ------------------------------------------------------------------------

\* Longest piece of data handed to one write() call.
MaxLen == 2

\* write() is not called any more once this many bytes were accepted.
MaxSize == 3

\* The most reading descriptors open on a DROP at a time.
MaxOpen == 2

\* The call depth at which the interpreter raises "maximum recursion depth
\* exceeded" (sys.getrecursionlimit(), counted in frames of the call stack).
RecursionLimit == 4

\* The most children all containers hold when client code makes a call.
MaxChildren == 2

\* handleInterest is not called any more on a DockerApp with this many
\* waiters.
MaxWaiters == 2

\* ------------------------------------------------------------------------
\* The objects
\* ------------------------------------------------------------------------

\* Plain data DROPs (InMemoryDROP and the like).
DataDrops == {"A", "B", "C"}

\* BarrierAppDROP instances.
BarrierApps == {"X", "Y"}

\* Plain AppDROP instances (they accept streaming inputs).
PlainApps == {"P", "Q", "S"}

Apps == BarrierApps \cup PlainApps

Objs == DataDrops \cup Apps

\* The class of an object.
Kind(o) ==
    IF o \in BarrierApps THEN "barrier"
    ELSE IF o \in PlainApps THEN "app" ELSE "data"

\* The uid given at construction; the uids are pairwise distinct.
uid(o) ==
    CASE o = "A" -> "a1" [] o = "B" -> "b1" [] o = "C" -> "c1"
      [] o = "X" -> "x1" [] o = "Y" -> "y1"
      [] o = "P" -> "p1" [] o = "Q" -> "q1" [] o = "S" -> "s1"

\* A uid that belongs to no object.
NoUid == "zz"

\* DockerApp instances.
DockerApps == {"DP", "DQ", "DR"}

\* The oid given to a DockerApp at construction.
oid(o) == CASE o = "DP" -> "dp" [] o = "DQ" -> "dq" [] o = "DR" -> "dr"

\* The uids a DockerApp is constructed with: its oid, or (DP) another string.
uidsOf(o) == IF o = "DP" THEN {"dp", "dp-1"} ELSE {oid(o)}

\* No address: self._containerIp = None
NoIp == "none"

\* The addresses inspect_container may report for the container of o.
ipsOf(o) ==
    CASE o = "DP" -> {"10.0.0.7", "10.0.0.8"}
      [] o = "DQ" -> {"10.0.0.9"}
      [] o = "DR" -> {"10.0.0.10"}

\* A command line is a sequence of pieces: text, or a placeholder
\* '%containerIp[{0}]%'.format(x).
Text(s) == [kind |-> "text", v |-> s]
Placeholder(x) == [kind |-> "containerIp", v |-> x]

\* `piece in cmd`
Contains(cmd, piece) == \E i \in 1..Len(cmd) : cmd[i] = piece

\* cmd.replace(old, new)
replace(cmd, old, new) ==
    [i \in 1..Len(cmd) |-> IF cmd[i] = old THEN new ELSE cmd[i]]

Uids == {uid(o) : o \in Objs} \cup {NoUid}

\* self._size = None, self._expectedSize = -1
None == -1

\* hasattr(o, 'dropCompleted'), hasattr(o, 'dataWritten'): AppDROP methods.
hasDropCompleted(o) == o \in Apps
hasDataWritten(o) == o \in Apps
\* hasattr(o, 'addInput'), 'addStreamingInput', 'addOutput'
hasAddInput(o) == o \in Apps
hasAddStreamingInput(o) == o \in Apps
hasAddOutput(o) == o \in Apps

\* x in list
InSeq(x, s) == \E i \in 1..Len(s) : s[i] = x

SeqToSet(s) == {s[i] : i \in 1..Len(s)}

\* How many times x occurs in s.
Count(x, s) == Cardinality({i \in 1..Len(s) : s[i] = x})

\* ContainerDROPs, and the nodes that are given a parent: the containers and
\* a DROP that is no container.
Containers == {"K", "L"}
Nodes == Containers \cup {"A"}

\* `self._parent = None`
NoParent == "none"

\* `self._checksumType = None`
NoType == "None"

\* ------------------------------------------------------------------------
\* The wiring: pure functions over the relations g of the graph
\*   g.consumers[d], g.streamingConsumers[d], g.producers[d]  (lists)
\*   g.inputs[a], g.outputs[a], g.streamingInputs[a]  (OrderedDicts keyed by
\*       uid; with distinct uids, the list of their values)
\*   g.statusSubs[d]  the consumers whose dropCompleted closure is
\*       subscribed to d's 'status' events, in subscription order
\*   g.execSubs[a]    the outputs whose appFinished closure is subscribed
\*       to a's 'execStatus' events
\*   g.executionMode[d]
\*   g.exc            an exception is propagating out of the call
\* ------------------------------------------------------------------------

EmptyGraph(modes) ==
    [consumers          |-> [o \in Objs |-> <<>>],
     streamingConsumers |-> [o \in Objs |-> <<>>],
     producers          |-> [o \in Objs |-> <<>>],
     inputs             |-> [o \in Objs |-> <<>>],
     outputs            |-> [o \in Objs |-> <<>>],
     streamingInputs    |-> [o \in Objs |-> <<>>],
     statusSubs         |-> [o \in Objs |-> <<>>],
     execSubs           |-> [o \in Objs |-> <<>>],
     executionMode      |-> modes,
     exc                |-> FALSE]

\* raise Exception(...)
Raised(g) == [g EXCEPT !.exc = TRUE]

\* LocalEventBroadcaster.subscribe(callback, eventType)
subscribe(subs, callback) == Append(subs, callback)

\* A test that takes no DROP as externally driven.
NeverExternal(mode) == FALSE

\* The test `self._executionMode == ExecutionMode.EXTERNAL` of addConsumer.
IsExternal(mode) == mode = "EXTERNAL"

RECURSIVE addConsumer(_, _, _), addInput(_, _, _)

\* AbstractDROP.addConsumer: d.addConsumer(c)
addConsumer(g, d, c) ==
    IF ~hasDropCompleted(c) THEN Raised(g)
    ELSE IF InSeq(c, g.streamingConsumers[d]) THEN Raised(g)
    ELSE IF InSeq(c, g.consumers[d]) THEN g
    ELSE LET g1 == [g EXCEPT !.consumers[d] = Append(@, c)]
             g2 == IF hasAddInput(c) THEN addInput(g1, c, d) ELSE g1
         IN  IF g2.exc THEN g2
             ELSE IF IsExternal(g2.executionMode[d]) THEN g2
             ELSE [g2 EXCEPT !.statusSubs[d] = subscribe(@, c)]

\* An addInput that forgets to register the application as a consumer.
addInputWithoutBackReference(g, a, d) ==
    IF InSeq(d, g.inputs[a]) THEN g
    ELSE [g EXCEPT !.inputs[a] = Append(@, d)]

\* AppDROP.addInput: a.addInput(d)
addInput(g, a, d) ==
    IF InSeq(d, g.inputs[a]) THEN g
    ELSE addConsumer([g EXCEPT !.inputs[a] = Append(@, d)], d, a)

RECURSIVE addStreamingConsumer(_, _, _), addStreamingInput(_, _, _)

\* An addStreamingConsumer that does not look at the normal consumers.
addStreamingConsumerOfAnyone(g, d, c) ==
    IF ~hasDropCompleted(c) \/ ~hasDataWritten(c) THEN Raised(g)
    ELSE IF InSeq(c, g.streamingConsumers[d]) THEN g
    ELSE LET g1 == [g EXCEPT !.streamingConsumers[d] = Append(@, c)]
         IN  IF hasAddStreamingInput(c) THEN addStreamingInput(g1, c, d)
             ELSE g1

\* AbstractDROP.addStreamingConsumer: d.addStreamingConsumer(c)
addStreamingConsumer(g, d, c) ==
    IF ~hasDropCompleted(c) \/ ~hasDataWritten(c) THEN Raised(g)
    ELSE IF InSeq(c, g.consumers[d]) THEN Raised(g)
    ELSE IF InSeq(c, g.streamingConsumers[d]) THEN g
    ELSE LET g1 == [g EXCEPT !.streamingConsumers[d] = Append(@, c)]
         IN  IF hasAddStreamingInput(c) THEN addStreamingInput(g1, c, d)
             ELSE g1

\* AppDROP.addStreamingInput, overridden by BarrierAppDROP.addStreamingInput
addStreamingInput(g, a, d) ==
    IF Kind(a) = "barrier" THEN Raised(g)
    ELSE IF InSeq(d, g.streamingInputs[a]) THEN g
    ELSE addStreamingConsumer(
             [g EXCEPT !.streamingInputs[a] = Append(@, d)], d, a)

RECURSIVE addProducer(_, _, _), addOutput(_, _, _)

\* An addProducer without its "don't add twice".
addProducerAgain(g, d, p) ==
    LET g1 == [g EXCEPT !.producers[d] = Append(@, p)]
    IN  IF hasAddOutput(p) THEN addOutput(g1, p, d) ELSE g1

\* AbstractDROP.addProducer: d.addProducer(p)
addProducer(g, d, p) ==
    IF InSeq(p, g.producers[d]) THEN g
    ELSE LET g1 == [g EXCEPT !.producers[d] = Append(@, p)]
         IN  IF hasAddOutput(p) THEN addOutput(g1, p, d) ELSE g1

\* AppDROP.addOutput: a.addOutput(d)
addOutput(g, a, d) ==
    IF d = a THEN Raised(g)
    ELSE IF InSeq(d, g.outputs[a]) THEN g
    ELSE LET g1 == [g EXCEPT !.outputs[a] = Append(@, d)]
             g2 == addProducer(g1, d, a)
         IN  IF g2.exc THEN g2
             ELSE [g2 EXCEPT !.execSubs[a] = subscribe(@, d)]

\* ------------------------------------------------------------------------
\* The state
\* ------------------------------------------------------------------------

VARIABLES
    \* AbstractDROP
    status,              \* _status
    executionMode,       \* _executionMode
    expectedSize,        \* _expectedSize (-1: unknown)
    size,                \* _size (None: nothing written through the DROP)
    wio,                 \* _wio: "none", "open" or "closed"
    consumers,           \* _consumers
    streamingConsumers,  \* _streamingConsumers
    producers,           \* _producers
    finishedProducers,   \* _finishedProducers
    \* the LocalEventBroadcaster of each DROP
    statusSubs,          \* callbacks subscribed to 'status'
    execSubs,            \* callbacks subscribed to 'execStatus'
    \* AppDROP, BarrierAppDROP
    inputs,              \* _inputs
    outputs,             \* _outputs
    streamingInputs,     \* _streamingInputs
    execStatus,          \* _execStatus
    completedInputs,     \* _completedInputs
    \* threads
    stack,               \* the call stack of each thread
    pendingExec,         \* threads started by dropCompleted, not yet running
    \* AbstractDROP, reading and writing the data
    checksum,            \* _checksum (None: nothing written through the DROP)
    refCount,            \* _refCount
    rios,                \* _rios: the descriptors of the open reading IOs
    writeLog,            \* history: data and accepted byte count per write
    received,            \* history: dataWritten calls each object received
    held,                \* history: descriptors open returned; those closed
    checksumType,        \* _checksumType
    \* ContainerDROP
    parent,              \* _parent of each node
    children,            \* _children of each container
    nodeClass,           \* the class of each node
    path,                \* FileDROP, DirectoryContainer: path (components)
    \* DockerApp
    identity,            \* _oid and _uid of each DockerApp
    command,             \* _command
    containerIp,         \* _containerIp
    waiters,             \* _waiters: the ContainerIpWaiter objects
    runAt,               \* where the thread in run() stands
    runCmd,              \* run(): the local variable cmd
    waiterIdx,           \* run(): the waiters the for loop has passed
    created,             \* the command create_container was called with
    interested,          \* history: the arguments of handleInterest calls
    waited,              \* history: the uids waitForIp returned to run()
    removeContainer,     \* _removeContainer
    exitCode,            \* _exitCode (None: the container has not exited)
    clientLog,           \* the calls run() made on the docker client
    \* history, read by the properties only
    execScheduled,       \* how many times dropCompleted started execute
    dcLog,               \* dropCompleted calls each object received
    pfCalled,            \* uids producerFinished was called with, per DROP
    pfSent,              \* events each application's closures passed on
    called,              \* methods client code called on each DROP
    outcome,             \* how the last call of each thread ended
    runRaised,           \* applications whose run() raised
    execRaised,          \* applications whose execute() raised to its caller
    wiringRaised         \* some wiring call raised

wiringVars ==
    <<consumers, streamingConsumers, producers, inputs, outputs,
      streamingInputs, statusSubs, execSubs, executionMode>>

dataVars == <<expectedSize, size, wio>>

historyVars ==
    <<execScheduled, dcLog, pfCalled, pfSent, called, outcome, runRaised,
      execRaised, wiringRaised>>

ioVars == <<checksum, refCount, rios, writeLog, received, held>>

containerVars == <<parent, children>>

dockerVars ==
    <<identity, command, containerIp, waiters, runAt, runCmd, waiterIdx,
      created, interested, waited, removeContainer, exitCode, clientLog>>

\* The variables of the state outside the DROP graph and its data.
dirVars == <<nodeClass, path>>

restVars == <<containerVars, dockerVars, dirVars>>

extVars == <<checksumType, restVars>>

vars ==
    <<status, execStatus, finishedProducers, completedInputs, stack,
      pendingExec, wiringVars, extVars, ioVars, dataVars, historyVars>>

\* Threads of client code, and the threads BarrierAppDROP.dropCompleted starts.
Clients == {"t1", "t2"}
Workers == {"w1", "w2"}
Threads == Clients \cup Workers

\* The relations as one record, for the wiring functions.
Graph ==
    [consumers          |-> consumers,
     streamingConsumers |-> streamingConsumers,
     producers          |-> producers,
     inputs             |-> inputs,
     outputs            |-> outputs,
     streamingInputs    |-> streamingInputs,
     statusSubs         |-> statusSubs,
     execSubs           |-> execSubs,
     executionMode      |-> executionMode,
     exc                |-> FALSE]

\* The state after the constructors ran (AbstractDROP.__init__ and the
\* initialize methods) and the wiring calls that built graph g were made.
InitData(g, esize) ==
    /\ status = [o \in Objs |-> "INITIALIZED"]
    /\ executionMode = g.executionMode
    /\ expectedSize = esize
    /\ size = [o \in Objs |-> None]
    /\ wio = [o \in Objs |-> "none"]
    /\ consumers = g.consumers
    /\ streamingConsumers = g.streamingConsumers
    /\ producers = g.producers
    /\ finishedProducers = [o \in Objs |-> {}]
    /\ statusSubs = g.statusSubs
    /\ execSubs = g.execSubs
    /\ inputs = g.inputs
    /\ outputs = g.outputs
    /\ streamingInputs = g.streamingInputs
    /\ execStatus = [o \in Objs |-> "NOT_RUN"]
    /\ completedInputs = [o \in Objs |-> <<>>]
    /\ stack = [t \in Threads |-> <<>>]
    /\ pendingExec = [o \in Objs |-> 0]
    /\ execScheduled = [o \in Objs |-> 0]
    /\ dcLog = [o \in Objs |-> <<>>]
    /\ pfCalled = [o \in Objs |-> {}]
    /\ pfSent = [o \in Objs |-> <<>>]
    /\ called = [o \in Objs |-> {}]
    /\ outcome = [t \in Threads |-> "none"]
    /\ runRaised = {}
    /\ execRaised = {}
    /\ wiringRaised = FALSE
    /\ checksum = [o \in Objs |-> None]
    /\ refCount = [o \in Objs |-> 0]
    /\ rios = [o \in Objs |-> {}]
    /\ writeLog = [o \in Objs |-> <<>>]
    /\ received = [o \in Objs |-> <<>>]
    /\ held = [o \in Objs |-> [open |-> {}, closed |-> {}]]
    /\ checksumType = [o \in Objs |-> NoType]

\* The nodes after construction: no parent, no child; the class, and the
\* path FileDROP.initialize and DirectoryContainer.initialize compute.
InitNodes(classes, paths) ==
    /\ parent = [n \in Nodes |-> NoParent]
    /\ children = [k \in Containers |-> <<>>]
    /\ nodeClass = classes
    /\ path = paths

\* Plain containers K and L and an in-memory DROP A (none has a path).
InitDrops(g, esize) ==
    /\ InitData(g, esize)
    /\ InitNodes([n \in Nodes |-> IF n \in Containers THEN "ContainerDROP"
                                   ELSE "InMemoryDROP"],
                 [n \in Nodes |-> <<>>])

\* The state of the DockerApps after AbstractDROP.__init__ (oid, uid) and
\* DockerApp.initialize (the command; no address, no container, no waiter).
InitDockerApps(ids, commands, removes) ==
    /\ identity = ids
    /\ command = commands
    /\ removeContainer = removes
    /\ exitCode = [o \in DockerApps |-> None]
    /\ clientLog = [o \in DockerApps |-> <<>>]
    /\ containerIp = [o \in DockerApps |-> NoIp]
    /\ waiters = [o \in DockerApps |-> <<>>]
    /\ runAt = [o \in DockerApps |-> "idle"]
    /\ runCmd = [o \in DockerApps |-> <<>>]
    /\ waiterIdx = [o \in DockerApps |-> 0]
    /\ created = [o \in DockerApps |-> <<>>]
    /\ interested = [o \in DockerApps |-> {}]
    /\ waited = [o \in DockerApps |-> <<>>]

InitWith(g, esize) ==
    /\ InitDrops(g, esize)
    /\ InitDockerApps([o \in DockerApps |-> [oid |-> oid(o), uid |-> oid(o)]],
                      [o \in DockerApps |-> <<Text("true")>>],
                      [o \in DockerApps |-> TRUE])

AllAuto == [o \in Objs |-> "DROP"]
NoExpectedSize == [o \in Objs |-> None]

\* ------------------------------------------------------------------------
\* Wiring calls made by client code (each call runs to its end before the
\* next one starts)
\* ------------------------------------------------------------------------

SetGraph(g) ==
    /\ consumers' = g.consumers
    /\ streamingConsumers' = g.streamingConsumers
    /\ producers' = g.producers
    /\ inputs' = g.inputs
    /\ outputs' = g.outputs
    /\ streamingInputs' = g.streamingInputs
    /\ statusSubs' = g.statusSubs
    /\ execSubs' = g.execSubs
    /\ wiringRaised' = (wiringRaised \/ g.exc)
    /\ UNCHANGED <<status, execStatus, finishedProducers, completedInputs,
                   stack, pendingExec, executionMode, dataVars, ioVars,
                   extVars,
                   execScheduled, dcLog, pfCalled, pfSent, called, outcome,
                   runRaised, execRaised>>

CallAddConsumer(d, c) == SetGraph(addConsumer(Graph, d, c))
CallAddInput(a, d) == SetGraph(addInput(Graph, a, d))
CallAddStreamingConsumer(d, c) == SetGraph(addStreamingConsumer(Graph, d, c))
CallAddStreamingInput(a, d) == SetGraph(addStreamingInput(Graph, a, d))
CallAddProducer(d, p) == SetGraph(addProducer(Graph, d, p))
CallAddOutput(a, d) == SetGraph(addOutput(Graph, a, d))

\* The DROPs and applications the wiring specification links.
WireDrops == {"A", "P"}
WireApps == {"P", "X"}

InitWire ==
    \E m \in {"DROP", "EXTERNAL"} :
        InitWith(EmptyGraph([o \in Objs |-> m]), NoExpectedSize)

NextWire ==
    \E d \in WireDrops, a \in WireApps :
        \/ CallAddConsumer(d, a)
        \/ CallAddInput(a, d)
        \/ CallAddStreamingConsumer(d, a)
        \/ CallAddStreamingInput(a, d)
        \/ CallAddProducer(d, a)
        \/ CallAddOutput(a, d)

SpecWire == InitWire /\ [][NextWire]_vars

\* ------------------------------------------------------------------------
\* Call stacks
\* ------------------------------------------------------------------------

\* A frame: the method (or the part of it) still to run, the object it runs
\* on (a), a second object or a uid (b), a value (v) and a number (n).
Frame(op, a, b, v, n) == [op |-> op, a |-> a, b |-> b, v |-> v, n |-> n]

\* Below every call made by client code or by a thread's run(): the call
\* returned, or an exception left it.
Returned == Frame("returned", "-", "-", "-", 0)
Failed == Frame("failed", "-", "-", "-", 0)

\* The end of a callback run by LocalEventBroadcaster.fire.
CallbackEnd == Frame("callback_end", "-", "-", "-", 0)

Idle(t) == stack[t] = <<>>
Top(t) == Head(stack[t])
At(t, op) == stack[t] # <<>> /\ Top(t).op = op

\* The frame on top is done and is replaced by the frames of `calls`.
Continue(t, calls) == stack' = [stack EXCEPT ![t] = calls \o Tail(@)]

\* Where an exception raised under the frames s is caught:
\*  - by LocalEventBroadcaster.fire, which logs and swallows what a callback
\*    raises and goes on with the next callback;
\*  - by the try block of BarrierAppDROP.execute (except: ERROR, then finally);
\*  - by the try block of the parent setter (except: the previous parent);
\*  - by nobody: the call of the client, or the thread, ends with it.
RECURSIVE Unwind(_)
Unwind(s) ==
    IF s = <<>> THEN <<Failed>>
    ELSE IF Head(s).op = "callback_end" THEN Tail(s)
    ELSE IF Head(s).op = "parent_except"
         THEN <<Frame("parent_restore", Head(s).a, Head(s).b, "-", 0)>>
              \o Tail(s)
    ELSE IF Head(s).op = "execute_finally"
         THEN <<Frame("execStatus_set", Head(s).a, "-", "ERROR", 0),
                Frame("execute_finally", Head(s).a, "-", "raise", 0)>>
              \o Tail(s)
    ELSE IF Head(s).op = "returned" THEN <<Failed>>
    ELSE Unwind(Tail(s))

\* The frame on top raises.
Raise(t) == stack' = [stack EXCEPT ![t] = Unwind(Tail(@))]

\* ------------------------------------------------------------------------
\* AbstractDROP.write
\* ------------------------------------------------------------------------

\* (a check that lets every state through)
WritableAlways(s) == TRUE

\* (a check that only turns COMPLETED away)
WritableUnlessCompleted(s) == s # "COMPLETED"

\* `self.status not in [INITIALIZED, WRITING]` raises, in write and in
\* setCompleted.
Writable(s) == s \in {"INITIALIZED", "WRITING"}

\* The bytes of the data, and the data of one write call.
Bytes == {0, 1}
DataOf(bytes) == UNION {[1..n -> bytes] : n \in 1..MaxLen}

\* The bytes client code passed to the write calls the storage took part in.
Offered(d) == LET RECURSIVE Sum(_)
                  Sum(i) == IF i = 0 THEN 0
                            ELSE Sum(i - 1) + Len(writeLog[d][i].data)
              IN  Sum(Len(writeLog[d]))

\* Client code calls d.write(data).
CallWrite(t, d, data) ==
    /\ Idle(t)
    /\ Offered(d) + Len(data) <= MaxSize
    /\ stack' = [stack EXCEPT ![t] =
                    <<Frame("write", d, "-", data, 0), Returned>>]
    /\ called' = [called EXCEPT ![d] = @ \cup {"write"}]
    /\ UNCHANGED <<status, execStatus, finishedProducers, completedInputs,
                   pendingExec, wiringVars, extVars, ioVars, dataVars, execScheduled,
                   dcLog, pfCalled, pfSent, outcome, runRaised, execRaised,
                   wiringRaised>>

\* write, the state check.
write(t) ==
    /\ At(t, "write")
    /\ IF ~Writable(status[Top(t).a])
       THEN Raise(t)
       ELSE Continue(t, <<Frame("write_io", Top(t).a, "-", Top(t).v, 0)>>)
    /\ UNCHANGED <<status, execStatus, finishedProducers, completedInputs,
                   pendingExec, wiringVars, extVars, ioVars, dataVars, historyVars>>

\* (a size that counts the bytes passed in)
sizeAfterWriteOfAll(s, nbytes, dataLen) ==
    (IF s = None THEN 0 ELSE s) + dataLen

\* `if self._size is None: self._size = 0` and `self._size += nbytes`
sizeAfterWrite(s, nbytes, dataLen) == (IF s = None THEN 0 ELSE s) + nbytes

\* write: the writer is opened on the first call and accepts nbytes of the
\* data; the size is updated with what was accepted.
write_io(t) ==
    /\ At(t, "write_io")
    /\ LET d == Top(t).a
           data == Top(t).v
       IN  \E nbytes \in 0..Len(data) :
              /\ wio' = [wio EXCEPT ![d] = IF @ = "none" THEN "open" ELSE @]
              /\ size' = [size EXCEPT ![d] =
                             sizeAfterWrite(@, nbytes, Len(data))]
              /\ writeLog' = [writeLog EXCEPT ![d] =
                                 Append(@, [data |-> data, nbytes |-> nbytes])]
              /\ Continue(t, <<Frame("write_streaming", d, "-",
                                     [data |-> data, nbytes |-> nbytes], 1)>>)
    /\ UNCHANGED <<status, execStatus, finishedProducers, completedInputs,
                   pendingExec, wiringVars, extVars, expectedSize, historyVars,
                   checksum, refCount, rios, received, held>>

\* write: the underlying storage fails (IOError from open or write).
write_io_fails(t) ==
    /\ At(t, "write_io")
    /\ Raise(t)
    /\ UNCHANGED <<status, execStatus, finishedProducers, completedInputs,
                   pendingExec, wiringVars, extVars, ioVars, dataVars, historyVars>>

\* (the whole of the data, whatever was written)
wholeData(data, nbytes) == data

\* `writtenData = buffer(data, 0, nbytes)`
writtenData(data, nbytes) == SubSeq(data, 1, nbytes)

\* write: `for streamingConsumer in self._streamingConsumers:
\*             streamingConsumer.dataWritten(self.uid, writtenData)`
write_streaming(t) ==
    /\ At(t, "write_streaming")
    /\ LET d == Top(t).a
           w == Top(t).v
           i == Top(t).n
       IN  IF i > Len(streamingConsumers[d])
           THEN Continue(t, <<Frame("write_checksum", d, "-", w.data, 0)>>)
           ELSE Continue(t, <<Frame("dataWritten", streamingConsumers[d][i],
                                    uid(d), writtenData(w.data, w.nbytes), 0),
                              Frame("write_streaming", d, "-", w, i + 1)>>)
    /\ UNCHANGED <<status, execStatus, finishedProducers, completedInputs,
                   pendingExec, wiringVars, extVars, ioVars, dataVars, historyVars>>

\* AppDROP.dataWritten (a: the consumer, b: the uid, v: the data): nothing,
\* but the call is recorded, with the number of dropCompleted calls the
\* consumer had received for that uid before it.
dataWritten(t) ==
    /\ At(t, "dataWritten")
    /\ LET c == Top(t).a
           u == Top(t).b
       IN  received' = [received EXCEPT ![c] =
               Append(@, [uid |-> u, data |-> Top(t).v,
                          ended |-> Cardinality({i \in 1..Len(dcLog[c]) :
                                                    dcLog[c][i].uid = u})])]
    /\ Continue(t, <<>>)
    /\ UNCHANGED <<status, execStatus, finishedProducers, completedInputs,
                   pendingExec, wiringVars, extVars, dataVars, historyVars,
                   checksum, refCount, rios, writeLog, held>>

\* zlib's crc32(chunk, value), as a running checksum: one step per byte, the
\* value of an empty chunk is the value it started with, and different
\* chunks of up to MaxSize bytes have different checksums.
RECURSIVE crc32(_, _)
crc32(chunk, value) ==
    IF chunk = <<>> THEN value
    ELSE crc32(Tail(chunk), 3 * value + Head(chunk) + 1)

\* AbstractDROP._updateChecksum(chunk)
updateChecksum(c, chunk) == crc32(chunk, IF c = None THEN 0 ELSE c)

\* write: `self._updateChecksum(data)`
write_checksum(t) ==
    /\ At(t, "write_checksum")
    /\ checksum' = [checksum EXCEPT ![Top(t).a] = updateChecksum(@, Top(t).v)]
    /\ checksumType' =
          [checksumType EXCEPT ![Top(t).a] =
              IF checksum[Top(t).a] = None THEN "CRC_32" ELSE @]
    /\ Continue(t, <<Frame("write_advance", Top(t).a, "-", "-", 0)>>)
    /\ UNCHANGED <<status, execStatus, finishedProducers, completedInputs,
                   pendingExec, wiringVars, restVars, dataVars, historyVars,
                   refCount, rios, writeLog, received, held>>

\* (a test that misses the data that went over the expected size)
ExactlyExpectedSize(expected, written) ==
    expected > 0 /\ expected - written = 0

\* `if self._expectedSize > 0` and not `remaining > 0`
ExpectedSizeArrived(expected, written) ==
    expected > 0 /\ ~(expected - written > 0)

\* write: WRITING, or COMPLETED once the expected size arrived.
write_advance(t) ==
    /\ At(t, "write_advance")
    /\ LET d == Top(t).a IN
       IF ExpectedSizeArrived(expectedSize[d], size[d])
       THEN Continue(t, <<Frame("setCompleted", d, "-", "-", 0)>>)
       ELSE Continue(t, <<Frame("status_set", d, "-", "WRITING", 0)>>)
    /\ UNCHANGED <<status, execStatus, finishedProducers, completedInputs,
                   pendingExec, wiringVars, extVars, ioVars, dataVars, historyVars>>

\* ------------------------------------------------------------------------
\* AbstractDROP.status (setter) and the 'status' event
\* ------------------------------------------------------------------------

\* The setter: under the status lock, nothing if the value is the current
\* one; the event is fired after the lock is released.
status_set(t) ==
    /\ At(t, "status_set")
    /\ LET d == Top(t).a
           value == Top(t).v
       IN  IF value = status[d]
           THEN /\ Continue(t, <<>>)
                /\ UNCHANGED status
           ELSE /\ status' = [status EXCEPT ![d] = value]
                /\ Continue(t, <<Frame("status_fire", d, "-", value, 1)>>)
    /\ UNCHANGED <<execStatus, finishedProducers, completedInputs,
                   pendingExec, wiringVars, extVars, ioVars, dataVars, historyVars>>

\* LocalEventBroadcaster.fire('status'): the subscribed callbacks one after
\* the other, on the firing thread.
status_fire(t) ==
    /\ At(t, "status_fire")
    /\ LET d == Top(t).a
           i == Top(t).n
       IN  IF i > Len(statusSubs[d])
           THEN Continue(t, <<>>)
           ELSE Continue(t, <<Frame("dropCompleted_handler", d,
                                    statusSubs[d][i], Top(t).v, 0),
                              CallbackEnd,
                              Frame("status_fire", d, "-", Top(t).v, i + 1)>>)
    /\ UNCHANGED <<status, execStatus, finishedProducers, completedInputs,
                   pendingExec, wiringVars, extVars, ioVars, dataVars, historyVars>>

\* (a closure that passes every status event on)
TriggersOnAnyStatus(value) == TRUE

\* The events the closure of addConsumer passes on to the consumer.
TriggersConsumer(value) == value = "COMPLETED"

\* The closure dropCompleted(e) defined in addConsumer (a: the DROP, b: the
\* consumer, v: e.status).
dropCompleted_handler(t) ==
    /\ At(t, "dropCompleted_handler")
    /\ IF ~TriggersConsumer(Top(t).v)
       THEN Continue(t, <<>>)
       ELSE Continue(t, <<Frame("dropCompleted", Top(t).b, uid(Top(t).a),
                                "-", 0)>>)
    /\ UNCHANGED <<status, execStatus, finishedProducers, completedInputs,
                   pendingExec, wiringVars, extVars, ioVars, dataVars, historyVars>>

\* LocalEventBroadcaster.fire: a callback returned (or what it raised was
\* swallowed).
callback_end(t) ==
    /\ At(t, "callback_end")
    /\ Continue(t, <<>>)
    /\ UNCHANGED <<status, execStatus, finishedProducers, completedInputs,
                   pendingExec, wiringVars, extVars, ioVars, dataVars, historyVars>>

\* The object with the given uid.
ObjOf(u) == CHOOSE o \in Objs : uid(o) = u

\* AppDROP.dropCompleted (nothing) and the first statement of
\* BarrierAppDROP.dropCompleted (a: the consumer, b: the uid).
dropCompleted(t) ==
    /\ At(t, "dropCompleted")
    /\ LET c == Top(t).a
           u == Top(t).b
       IN  /\ dcLog' = [dcLog EXCEPT ![c] =
                  Append(@, [uid |-> u, seen |-> status[ObjOf(u)]])]
           /\ IF Kind(c) = "barrier"
              THEN /\ completedInputs' =
                          [completedInputs EXCEPT ![c] = Append(@, u)]
                   /\ Continue(t, <<Frame("dropCompleted_check", c, u, "-", 0)>>)
              ELSE /\ Continue(t, <<>>)
                   /\ UNCHANGED completedInputs
    /\ UNCHANGED <<status, execStatus, finishedProducers, pendingExec,
                   wiringVars, extVars, ioVars, dataVars, execScheduled, pfCalled, pfSent, called,
                   outcome, runRaised, execRaised, wiringRaised>>

\* (a test that is satisfied by the first completed input)
ReadyAfterFirst(nCompleted, nInputs) == nCompleted >= 1

\* (a test that is off by one: it waits for one input too many)
ReadyAfterOneMore(nCompleted, nInputs) == nCompleted = nInputs + 1

\* The test of BarrierAppDROP.dropCompleted.
AllInputsCompleted(nCompleted, nInputs) == nCompleted = nInputs

\* BarrierAppDROP.dropCompleted, after the append: start a thread that runs
\* execute once as many inputs completed as there are inputs.
dropCompleted_check(t) ==
    /\ At(t, "dropCompleted_check")
    /\ LET c == Top(t).a IN
       IF AllInputsCompleted(Len(completedInputs[c]), Len(inputs[c]))
       THEN /\ pendingExec' = [pendingExec EXCEPT ![c] = @ + 1]
            /\ execScheduled' = [execScheduled EXCEPT ![c] = @ + 1]
       ELSE UNCHANGED <<pendingExec, execScheduled>>
    /\ Continue(t, <<>>)
    /\ UNCHANGED <<status, execStatus, finishedProducers, completedInputs,
                   wiringVars, extVars, ioVars, dataVars, dcLog, pfCalled, pfSent, called, outcome,
                   runRaised, execRaised, wiringRaised>>

\* ------------------------------------------------------------------------
\* AbstractDROP.setCompleted
\* ------------------------------------------------------------------------

\* Client code calls d.setCompleted().
CallSetCompleted(t, d) ==
    /\ Idle(t)
    /\ stack' = [stack EXCEPT ![t] =
                    <<Frame("setCompleted", d, "-", "-", 0), Returned>>]
    /\ called' = [called EXCEPT ![d] = @ \cup {"setCompleted"}]
    /\ UNCHANGED <<status, execStatus, finishedProducers, completedInputs,
                   pendingExec, wiringVars, extVars, ioVars, dataVars, execScheduled, dcLog,
                   pfCalled, pfSent, outcome, runRaised, execRaised, wiringRaised>>

\* setCompleted: the state check and the closing of the writer; then the
\* status is set and the streaming consumers are told.
setCompleted(t) ==
    /\ At(t, "setCompleted")
    /\ LET d == Top(t).a IN
       IF ~Writable(status[d])
       THEN /\ Raise(t)
            /\ UNCHANGED wio
       ELSE /\ wio' = [wio EXCEPT ![d] = IF @ = "open" THEN "closed" ELSE @]
            /\ Continue(t, <<Frame("status_set", d, "-", "COMPLETED", 0),
                             Frame("setCompleted_streaming", d, "-", "-", 1)>>)
    /\ UNCHANGED <<status, execStatus, finishedProducers, completedInputs,
                   pendingExec, wiringVars, extVars, ioVars, expectedSize, size, historyVars>>

\* setCompleted: `for ic in self._streamingConsumers: ic.dropCompleted(uid)`
setCompleted_streaming(t) ==
    /\ At(t, "setCompleted_streaming")
    /\ LET d == Top(t).a
           i == Top(t).n
       IN  IF i > Len(streamingConsumers[d])
           THEN Continue(t, <<>>)
           ELSE Continue(t, <<Frame("dropCompleted", streamingConsumers[d][i],
                                    uid(d), "-", 0),
                              Frame("setCompleted_streaming", d, "-", "-", i + 1)>>)
    /\ UNCHANGED <<status, execStatus, finishedProducers, completedInputs,
                   pendingExec, wiringVars, extVars, ioVars, dataVars, historyVars>>

\* ------------------------------------------------------------------------
\* AbstractDROP.producerFinished
\* ------------------------------------------------------------------------

\* Client code calls d.producerFinished(u).
CallProducerFinished(t, d, u) ==
    /\ Idle(t)
    /\ stack' = [stack EXCEPT ![t] =
                    <<Frame("producerFinished", d, u, "-", 0), Returned>>]
    /\ called' = [called EXCEPT ![d] = @ \cup {"producerFinished"}]
    /\ UNCHANGED <<status, execStatus, finishedProducers, completedInputs,
                   pendingExec, wiringVars, extVars, ioVars, dataVars, execScheduled, dcLog,
                   pfCalled, pfSent, outcome, runRaised, execRaised, wiringRaised>>

\* (a test that takes every uid for the uid of a producer)
anyUid(d, u) == TRUE

\* `uid in [p.uid for p in self._producers]`
isProducerUid(d, u) == u \in {uid(p) : p \in SeqToSet(producers[d])}

\* producerFinished: is the uid the uid of a producer?
producerFinished(t) ==
    /\ At(t, "producerFinished")
    /\ LET d == Top(t).a
           u == Top(t).b
       IN  /\ pfCalled' = [pfCalled EXCEPT ![d] = @ \cup {u}]
           /\ IF ~isProducerUid(d, u)
              THEN Raise(t)
              ELSE Continue(t, <<Frame("producerFinished_record", d, u, "-", 0)>>)
    /\ UNCHANGED <<status, execStatus, finishedProducers, completedInputs,
                   pendingExec, wiringVars, extVars, ioVars, dataVars,
                   execScheduled, dcLog, pfSent, called, outcome, runRaised,
                   execRaised, wiringRaised>>

\* producerFinished, under _finishedProducersLock: nFinished is the number
\* of uids recorded before this one is added.
producerFinished_record(t) ==
    /\ At(t, "producerFinished_record")
    /\ LET d == Top(t).a
           nFinished == Cardinality(finishedProducers[d])
       IN  IF nFinished >= Len(producers[d])
           THEN /\ Raise(t)
                /\ UNCHANGED finishedProducers
           ELSE /\ finishedProducers' =
                       [finishedProducers EXCEPT ![d] = @ \cup {Top(t).b}]
                /\ Continue(t, <<Frame("producerFinished_complete", d, "-", "-",
                                       nFinished)>>)
    /\ UNCHANGED <<status, execStatus, completedInputs, pendingExec,
                   wiringVars, extVars, ioVars, dataVars, historyVars>>

\* (a test that reads the shared set again instead of the count taken
\* under the lock)
allRecorded(d, nFinished) ==
    Cardinality(finishedProducers[d]) = Len(producers[d])

\* `(nFinished+1) == len(self._producers)`
lastReport(d, nFinished) == nFinished + 1 = Len(producers[d])

\* producerFinished: `if (nFinished+1) == len(self._producers)`
producerFinished_complete(t) ==
    /\ At(t, "producerFinished_complete")
    /\ IF lastReport(Top(t).a, Top(t).n)
       THEN Continue(t, <<Frame("setCompleted", Top(t).a, "-", "-", 0)>>)
       ELSE Continue(t, <<>>)
    /\ UNCHANGED <<status, execStatus, finishedProducers, completedInputs,
                   pendingExec, wiringVars, extVars, ioVars, dataVars, historyVars>>

\* ------------------------------------------------------------------------
\* The end of a call
\* ------------------------------------------------------------------------

\* The call returned to the client (or the thread's function returned).
return(t) ==
    /\ At(t, "returned")
    /\ Continue(t, <<>>)
    /\ outcome' = [outcome EXCEPT ![t] = "returned"]
    /\ UNCHANGED <<status, execStatus, finishedProducers, completedInputs,
                   pendingExec, wiringVars, extVars, ioVars, dataVars, execScheduled, dcLog,
                   pfCalled, pfSent, called, runRaised, execRaised, wiringRaised>>

\* The call raised to the client (or the thread died of the exception).
fail(t) ==
    /\ At(t, "failed")
    /\ Continue(t, <<>>)
    /\ outcome' = [outcome EXCEPT ![t] = "raised"]
    /\ UNCHANGED <<status, execStatus, finishedProducers, completedInputs,
                   pendingExec, wiringVars, extVars, ioVars, dataVars, execScheduled, dcLog,
                   pfCalled, pfSent, called, runRaised, execRaised, wiringRaised>>

\* ------------------------------------------------------------------------
\* One DROP, its producers and consumers, driven by one client thread
\* ------------------------------------------------------------------------

\* B is produced by X and Y and consumed by P and Q; S consumes it as a
\* stream.
DropGraph(mode) ==
    addStreamingConsumer(
      addInput(
        addConsumer(
          addOutput(
            addProducer(EmptyGraph([o \in Objs |-> mode]), "B", "X"),
            "Y", "B"),
          "B", "P"),
        "Q", "B"),
      "B", "S")

ExpectedSizes == {None, 2}

InitDrop ==
    \E mode \in {"DROP", "EXTERNAL"}, e \in ExpectedSizes :
        InitWith(DropGraph(mode), [o \in Objs |-> IF o = "B" THEN e ELSE None])

StepDrop(t) ==
    \/ write(t) \/ write_io(t) \/ write_io_fails(t) \/ write_streaming(t)
    \/ dataWritten(t) \/ write_checksum(t) \/ write_advance(t)
    \/ status_set(t) \/ status_fire(t) \/ dropCompleted_handler(t)
    \/ callback_end(t) \/ dropCompleted(t)
    \/ setCompleted(t) \/ setCompleted_streaming(t)
    \/ producerFinished(t) \/ producerFinished_record(t)
    \/ producerFinished_complete(t)
    \/ return(t) \/ fail(t)

NextDrop ==
    \/ \E data \in DataOf({0}) : CallWrite("t1", "B", data)
    \/ CallSetCompleted("t1", "B")
    \/ \E u \in {"x1", "y1", NoUid} : CallProducerFinished("t1", "B", u)
    \/ StepDrop("t1")

SpecDrop == InitDrop /\ [][NextDrop]_vars

\* ------------------------------------------------------------------------
\* One DROP written by one client thread, with streaming consumers
\* ------------------------------------------------------------------------

\* Client code assigns d.status = value.
CallSetStatus(t, d, value) ==
    /\ Idle(t)
    /\ stack' = [stack EXCEPT ![t] =
                    <<Frame("status_set", d, "-", value, 0), Returned>>]
    /\ called' = [called EXCEPT ![d] = @ \cup {"status"}]
    /\ UNCHANGED <<status, execStatus, finishedProducers, completedInputs,
                   pendingExec, wiringVars, extVars, ioVars, dataVars, execScheduled,
                   dcLog, pfCalled, pfSent, outcome, runRaised, execRaised,
                   wiringRaised>>

\* B is consumed by P, and as a stream by S and Q.
WriteGraph ==
    addStreamingInput(
      addStreamingConsumer(
        addConsumer(EmptyGraph(AllAuto), "B", "P"),
        "B", "S"),
      "Q", "B")

InitWrite ==
    \E e \in ExpectedSizes :
        InitWith(WriteGraph, [o \in Objs |-> IF o = "B" THEN e ELSE None])

StepWrite(t) ==
    \/ write(t) \/ write_io(t) \/ write_io_fails(t) \/ write_streaming(t)
    \/ dataWritten(t) \/ write_checksum(t) \/ write_advance(t)
    \/ status_set(t) \/ status_fire(t) \/ dropCompleted_handler(t)
    \/ callback_end(t) \/ dropCompleted(t)
    \/ setCompleted(t) \/ setCompleted_streaming(t)
    \/ return(t) \/ fail(t)

\* The states after COMPLETED that client code moves the DROP to.
LaterStates == {"EXPIRED", "DELETED", "ERROR"}

NextWrite ==
    \/ \E data \in DataOf(Bytes) : CallWrite("t1", "B", data)
    \/ CallSetCompleted("t1", "B")
    \/ \E value \in LaterStates : CallSetStatus("t1", "B", value)
    \/ StepWrite("t1")

SpecWrite == InitWrite /\ [][NextWrite]_vars

\* B with the consumer P; thread t1 writes to B while thread t2 calls
\* B.setCompleted().
InitWriteRace ==
    \E e \in ExpectedSizes :
        InitWith(addConsumer(EmptyGraph(AllAuto), "B", "P"),
                 [o \in Objs |-> IF o = "B" THEN e ELSE None])

StepWriteRace(t) ==
    \/ write(t) \/ write_io(t) \/ write_io_fails(t) \/ write_streaming(t)
    \/ write_checksum(t) \/ write_advance(t)
    \/ status_set(t) \/ status_fire(t) \/ dropCompleted_handler(t)
    \/ callback_end(t) \/ dropCompleted(t)
    \/ setCompleted(t) \/ setCompleted_streaming(t)
    \/ return(t) \/ fail(t)

NextWriteRace ==
    \/ CallWrite("t1", "B", <<0>>)
    \/ CallSetCompleted("t2", "B")
    \/ \E t \in Clients : StepWriteRace(t)

SpecWriteRace == InitWriteRace /\ [][NextWriteRace]_vars

\* ------------------------------------------------------------------------
\* AbstractDROP.open, read, close
\* ------------------------------------------------------------------------

\* The descriptors the random generator of open gives out.
Descriptors == 1..(MaxOpen + 1)

\* Client code calls d.open().
CallOpen(t, d) ==
    /\ Idle(t)
    /\ Cardinality(rios[d]) < MaxOpen
    /\ stack' = [stack EXCEPT ![t] =
                    <<Frame("open", d, "-", "-", 0), Returned>>]
    /\ called' = [called EXCEPT ![d] = @ \cup {"open"}]
    /\ UNCHANGED <<status, execStatus, finishedProducers, completedInputs,
                   pendingExec, wiringVars, extVars, ioVars, dataVars, execScheduled,
                   dcLog, pfCalled, pfSent, outcome, runRaised, execRaised,
                   wiringRaised>>

\* open, the state check.
open(t) ==
    /\ At(t, "open")
    /\ IF status[Top(t).a] # "COMPLETED"
       THEN Raise(t)
       ELSE Continue(t, <<Frame("open_io", Top(t).a, "-", "-", 0)>>)
    /\ UNCHANGED <<status, execStatus, finishedProducers, completedInputs,
                   pendingExec, wiringVars, extVars, ioVars, dataVars, historyVars>>

\* open: the IO was opened, and is kept under a random descriptor that is
\* not in use.
open_io(t) ==
    /\ At(t, "open_io")
    /\ LET d == Top(t).a IN
       \E descriptor \in Descriptors \ rios[d] :
          /\ rios' = [rios EXCEPT ![d] = @ \cup {descriptor}]
          /\ Continue(t, <<Frame("open_incrRefCount", d, "-", "-",
                                 descriptor)>>)
    /\ UNCHANGED <<status, execStatus, finishedProducers, completedInputs,
                   pendingExec, wiringVars, extVars, dataVars, historyVars,
                   checksum, refCount, writeLog, received, held>>

\* open: the underlying storage fails to open.
open_io_fails(t) ==
    /\ At(t, "open_io")
    /\ Raise(t)
    /\ UNCHANGED <<status, execStatus, finishedProducers, completedInputs,
                   pendingExec, wiringVars, extVars, ioVars, dataVars, historyVars>>

\* incrRefCount, under _refLock
incrRefCount(n) == n + 1

\* open: the reference is counted ('open' is fired, to no subscriber) and
\* the descriptor is returned.
open_incrRefCount(t) ==
    /\ At(t, "open_incrRefCount")
    /\ LET d == Top(t).a IN
       /\ refCount' = [refCount EXCEPT ![d] = incrRefCount(@)]
       /\ held' = [held EXCEPT ![d].open = @ \cup {Top(t).n}]
    /\ Continue(t, <<>>)
    /\ UNCHANGED <<status, execStatus, finishedProducers, completedInputs,
                   pendingExec, wiringVars, extVars, dataVars, historyVars,
                   checksum, rios, writeLog, received>>

\* Client code calls d.close(descriptor).
CallClose(t, d, descriptor) ==
    /\ Idle(t)
    /\ stack' = [stack EXCEPT ![t] =
                    <<Frame("close", d, "-", "-", descriptor), Returned>>]
    /\ called' = [called EXCEPT ![d] = @ \cup {"close"}]
    /\ UNCHANGED <<status, execStatus, finishedProducers, completedInputs,
                   pendingExec, wiringVars, extVars, ioVars, dataVars, execScheduled,
                   dcLog, pfCalled, pfSent, outcome, runRaised, execRaised,
                   wiringRaised>>

\* (a check of the state that takes any descriptor)
checkStateOnly(d, descriptor) == status[d] = "COMPLETED"

\* _checkStateAndDescriptor(descriptor) does not raise.
checkStateAndDescriptor(d, descriptor) ==
    status[d] = "COMPLETED" /\ descriptor \in rios[d]

\* (a decrement that drops every reference)
decrRefCountToZero(n) == 0

\* decrRefCount, under _refLock
decrRefCount(n) == n - 1

\* close: the check, and the reference given back.
close(t) ==
    /\ At(t, "close")
    /\ LET d == Top(t).a IN
       IF ~checkStateAndDescriptor(d, Top(t).n)
       THEN /\ Raise(t)
            /\ UNCHANGED refCount
       ELSE /\ refCount' = [refCount EXCEPT ![d] = decrRefCount(@)]
            /\ Continue(t, <<Frame("close_pop", d, "-", "-", Top(t).n)>>)
    /\ UNCHANGED <<status, execStatus, finishedProducers, completedInputs,
                   pendingExec, wiringVars, extVars, dataVars, historyVars,
                   checksum, rios, writeLog, received, held>>

\* close: the IO is taken out of _rios and closed.
close_pop(t) ==
    /\ At(t, "close_pop")
    /\ LET d == Top(t).a IN
       /\ rios' = [rios EXCEPT ![d] = @ \ {Top(t).n}]
       /\ held' = [held EXCEPT ![d].open = @ \ {Top(t).n},
                               ![d].closed = @ \cup {Top(t).n}]
    /\ Continue(t, <<>>)
    /\ UNCHANGED <<status, execStatus, finishedProducers, completedInputs,
                   pendingExec, wiringVars, extVars, dataVars, historyVars,
                   checksum, refCount, writeLog, received>>

\* Client code calls d.read(descriptor).
CallRead(t, d, descriptor) ==
    /\ Idle(t)
    /\ stack' = [stack EXCEPT ![t] =
                    <<Frame("read", d, "-", "-", descriptor), Returned>>]
    /\ called' = [called EXCEPT ![d] = @ \cup {"read"}]
    /\ UNCHANGED <<status, execStatus, finishedProducers, completedInputs,
                   pendingExec, wiringVars, extVars, ioVars, dataVars, execScheduled,
                   dcLog, pfCalled, pfSent, outcome, runRaised, execRaised,
                   wiringRaised>>

\* read: the check, and the bytes of the IO returned.
read(t) ==
    /\ At(t, "read")
    /\ IF ~checkStateAndDescriptor(Top(t).a, Top(t).n)
       THEN Raise(t)
       ELSE Continue(t, <<>>)
    /\ UNCHANGED <<status, execStatus, finishedProducers, completedInputs,
                   pendingExec, wiringVars, extVars, ioVars, dataVars, historyVars>>

\* isBeingRead()
isBeingRead(d) == refCount[d] > 0

\* One DROP that one client thread completes, opens, reads and closes, and
\* may let expire.
InitRead == InitWith(EmptyGraph(AllAuto), NoExpectedSize)

StepRead(t) ==
    \/ open(t) \/ open_io(t) \/ open_io_fails(t) \/ open_incrRefCount(t)
    \/ close(t) \/ close_pop(t) \/ read(t)
    \/ setCompleted(t) \/ setCompleted_streaming(t)
    \/ status_set(t) \/ status_fire(t)
    \/ return(t) \/ fail(t)

NextRead ==
    \/ CallSetCompleted("t1", "A")
    \/ CallSetStatus("t1", "A", "EXPIRED")
    \/ CallOpen("t1", "A")
    \/ \E descriptor \in Descriptors :
          CallClose("t1", "A", descriptor) \/ CallRead("t1", "A", descriptor)
    \/ StepRead("t1")

SpecRead == InitRead /\ [][NextRead]_vars

\* ------------------------------------------------------------------------
\* AbstractDROP.checksum, checksumType and size (setters)
\* ------------------------------------------------------------------------

\* The attributes client code may assign, the value of each when it is not
\* set, and the values client code assigns.
Attributes == {"checksum", "checksumType", "size"}
Unset(attr) == IF attr = "checksumType" THEN NoType ELSE None
ValuesOf(attr) == IF attr = "checksumType" THEN {"CRC_32", "MD5"} ELSE {1, 2}

\* The value of an attribute of d.
Attribute(d, attr) ==
    CASE attr = "checksum" -> checksum[d]
      [] attr = "checksumType" -> checksumType[d]
      [] attr = "size" -> size[d]

\* Client code assigns d.checksum, d.checksumType or d.size = value.
CallSetAttribute(t, d, attr, value) ==
    /\ Idle(t)
    /\ stack' = [stack EXCEPT ![t] =
                    <<Frame("attribute_set", d, attr, value, 0), Returned>>]
    /\ called' = [called EXCEPT ![d] = @ \cup {attr}]
    /\ UNCHANGED <<status, execStatus, finishedProducers, completedInputs,
                   pendingExec, wiringVars, extVars, ioVars, dataVars,
                   execScheduled, dcLog, pfCalled, pfSent, outcome, runRaised,
                   execRaised, wiringRaised>>

\* (a test that takes every attribute for unset)
neverSet(current, attr) == FALSE

\* `if self._checksum is not None` (and the same for the other two)
alreadySet(current, attr) == current # Unset(attr)

\* `if self.status in [DROPStates.INITIALIZED, DROPStates.WRITING]`
notFullyWritten(s) == s \in {"INITIALIZED", "WRITING"}

\* The three setters (a: the DROP, b: the attribute, v: the value).
attribute_set(t) ==
    /\ At(t, "attribute_set")
    /\ LET d == Top(t).a
           attr == Top(t).b
           ok == /\ ~alreadySet(Attribute(d, attr), attr)
                 /\ ~notFullyWritten(status[d])
       IN  /\ IF ok THEN Continue(t, <<>>) ELSE Raise(t)
           /\ checksum' = IF ok /\ attr = "checksum"
                          THEN [checksum EXCEPT ![d] = Top(t).v] ELSE checksum
           /\ checksumType' = IF ok /\ attr = "checksumType"
                              THEN [checksumType EXCEPT ![d] = Top(t).v]
                              ELSE checksumType
           /\ size' = IF ok /\ attr = "size"
                      THEN [size EXCEPT ![d] = Top(t).v] ELSE size
    /\ UNCHANGED <<status, execStatus, finishedProducers, completedInputs,
                   pendingExec, wiringVars, restVars, historyVars,
                   expectedSize, wio, refCount, rios, writeLog, received,
                   held>>

\* One DROP that one client thread writes, completes and assigns the
\* attributes of.
InitAttribute == InitWith(EmptyGraph(AllAuto), NoExpectedSize)

StepAttribute(t) ==
    \/ write(t) \/ write_io(t) \/ write_io_fails(t) \/ write_streaming(t)
    \/ write_checksum(t) \/ write_advance(t)
    \/ setCompleted(t) \/ setCompleted_streaming(t)
    \/ status_set(t) \/ status_fire(t)
    \/ attribute_set(t)
    \/ return(t) \/ fail(t)

NextAttribute ==
    \/ \E data \in DataOf({0}) : CallWrite("t1", "B", data)
    \/ CallSetCompleted("t1", "B")
    \/ \E attr \in Attributes : \E value \in ValuesOf(attr) :
          CallSetAttribute("t1", "B", attr, value)
    \/ StepAttribute("t1")

SpecAttribute == InitAttribute /\ [][NextAttribute]_vars

\* ------------------------------------------------------------------------
\* ContainerDROP.addChild and AbstractDROP.parent (setter)
\* ------------------------------------------------------------------------

\* Client code calls p.addChild(c).
CallAddChild(t, p, c) ==
    /\ Idle(t)
    /\ stack' = [stack EXCEPT ![t] =
                    <<Frame("addChild", p, c, "-", 0), Returned>>]
    /\ UNCHANGED <<status, execStatus, finishedProducers, completedInputs,
                   pendingExec, wiringVars, extVars, ioVars, dataVars,
                   historyVars>>

\* Client code assigns c.parent = p.
CallSetParent(t, c, p) ==
    /\ Idle(t)
    /\ stack' = [stack EXCEPT ![t] =
                    <<Frame("parent_set", c, p, "-", 0), Returned>>]
    /\ UNCHANGED <<status, execStatus, finishedProducers, completedInputs,
                   pendingExec, wiringVars, extVars, ioVars, dataVars,
                   historyVars>>

\* The interpreter has no frame left for another call.
RecursionLimitReached(t) == Len(stack[t]) >= RecursionLimit

\* `hasattr(parent, 'addChild')`
hasAddChild(p) == p \in Containers

\* os.path.dirname of an absolute, normalised path (<<>>: the root).
dirname(f) == IF f = <<>> THEN <<>> ELSE SubSeq(f, 1, Len(f) - 1)

\* (a test that looks at the type of the child only)
acceptsAnyPath(p, c) ==
    \/ nodeClass[p] # "DirectoryContainer"
    \/ nodeClass[c] \in {"FileDROP", "DirectoryContainer"}

\* p.addChild(c) gets as far as ContainerDROP.addChild: always for a plain
\* container; for a DirectoryContainer only with a FileDROP or a
\* DirectoryContainer whose path lies directly in its own.
accepts(p, c) ==
    \/ nodeClass[p] # "DirectoryContainer"
    \/ /\ nodeClass[c] \in {"FileDROP", "DirectoryContainer"}
       /\ dirname(path[c]) = path[p]

\* DirectoryContainer.addChild raises: the child is not below the path
\* (Exception) or of another type (TypeError).
addChild_rejects(t) ==
    /\ At(t, "addChild")
    /\ ~accepts(Top(t).a, Top(t).b)
    /\ Raise(t)
    /\ UNCHANGED <<status, execStatus, finishedProducers, completedInputs,
                   pendingExec, wiringVars, extVars, ioVars, dataVars,
                   historyVars>>

\* ContainerDROP.addChild (a: the container, b: the child). With no frame
\* left, one of its calls raises: one before the append (the parent getter,
\* the logger) or the assignment of child.parent after it.
addChild(t) ==
    /\ At(t, "addChild")
    /\ accepts(Top(t).a, Top(t).b)
    /\ LET p == Top(t).a
           c == Top(t).b
           appended == [children EXCEPT ![p] = Append(@, c)]
       IN  IF c = parent[p]
           THEN Raise(t) /\ UNCHANGED children
           ELSE IF ~RecursionLimitReached(t)
           THEN /\ children' = appended
                /\ Continue(t, <<Frame("parent_set", c, p, "-", 0)>>)
           ELSE /\ Raise(t)
                /\ children' \in {children, appended}
    /\ UNCHANGED <<status, execStatus, finishedProducers, completedInputs,
                   pendingExec, wiringVars, checksumType, ioVars, dataVars,
                   historyVars, parent, dockerVars, dirVars>>

\* The parent setter (a: the DROP, b: the new parent). With no frame left,
\* the logger raises (when a parent is already set), or the call of
\* addChild in the try block does, and the previous parent is put back.
parent_set(t) ==
    /\ At(t, "parent_set")
    /\ LET c == Top(t).a
           p == Top(t).b
           prevParent == parent[c]
       IN  IF p = NoParent
           THEN Continue(t, <<>>) /\ UNCHANGED parent
           ELSE IF ~hasAddChild(p)
           THEN /\ parent' = [parent EXCEPT ![c] = p]
                /\ Continue(t, <<>>)
           ELSE IF ~RecursionLimitReached(t)
           THEN /\ parent' = [parent EXCEPT ![c] = p]
                /\ Continue(t, <<Frame("addChild", p, c, "-", 0),
                                 Frame("parent_except", c, prevParent,
                                       "-", 0)>>)
           ELSE /\ UNCHANGED parent
                /\ \/ prevParent # NoParent /\ Raise(t)
                   \/ Continue(t, <<>>)
    /\ UNCHANGED <<status, execStatus, finishedProducers, completedInputs,
                   pendingExec, wiringVars, checksumType, ioVars, dataVars,
                   historyVars, children, dockerVars, dirVars>>

\* The parent setter: addChild returned, the try block is left.
parent_except(t) ==
    /\ At(t, "parent_except")
    /\ Continue(t, <<>>)
    /\ UNCHANGED <<status, execStatus, finishedProducers, completedInputs,
                   pendingExec, wiringVars, extVars, ioVars, dataVars,
                   historyVars>>

\* The parent setter: `except: self._parent = prevParent`
parent_restore(t) ==
    /\ At(t, "parent_restore")
    /\ parent' = [parent EXCEPT ![Top(t).a] = Top(t).b]
    /\ Continue(t, <<>>)
    /\ UNCHANGED <<status, execStatus, finishedProducers, completedInputs,
                   pendingExec, wiringVars, checksumType, ioVars, dataVars,
                   historyVars, children, dockerVars, dirVars>>

\* The children all containers hold.
TotalChildren ==
    LET RECURSIVE Sum(_)
        Sum(ks) == IF ks = {} THEN 0
                   ELSE LET k == CHOOSE x \in ks : TRUE
                        IN  Len(children[k]) + Sum(ks \ {k})
    IN  Sum(Containers)

\* Two containers and a DROP, by one client thread.
InitContainer == InitWith(EmptyGraph(AllAuto), NoExpectedSize)

StepContainer(t) ==
    \/ addChild(t) \/ parent_set(t) \/ parent_except(t) \/ parent_restore(t)
    \/ return(t) \/ fail(t)

NextContainer ==
    \/ /\ TotalChildren <= MaxChildren
       /\ \E p \in Containers, c \in Nodes : CallAddChild("t1", p, c)
    \/ /\ TotalChildren <= MaxChildren
       /\ \E c \in Nodes, p \in Nodes \cup {NoParent} :
             CallSetParent("t1", c, p)
    \/ StepContainer("t1")

SpecContainer == InitContainer /\ [][NextContainer]_vars

\* K and L are DirectoryContainers, A is a FileDROP or an in-memory DROP.
InitDirectory ==
    \E pk \in {<<>>, <<"a">>}, pl \in {<<"a", "b">>, <<"c">>},
       ca \in {"FileDROP", "InMemoryDROP"},
       pa \in {<<"a", "f">>, <<"a", "b", "f">>} :
        /\ InitData(EmptyGraph(AllAuto), NoExpectedSize)
        /\ InitNodes([n \in Nodes |-> IF n \in Containers
                                       THEN "DirectoryContainer" ELSE ca],
                     [n \in Nodes |-> IF n = "K" THEN pk
                                      ELSE IF n = "L" THEN pl
                                      ELSE IF ca = "FileDROP" THEN pa
                                      ELSE <<>>])
        /\ InitDockerApps(
              [o \in DockerApps |-> [oid |-> oid(o), uid |-> oid(o)]],
              [o \in DockerApps |-> <<Text("true")>>],
              [o \in DockerApps |-> TRUE])

StepDirectory(t) == StepContainer(t) \/ addChild_rejects(t)

NextDirectory ==
    \/ /\ TotalChildren <= MaxChildren
       /\ \E p \in Containers, c \in Nodes : CallAddChild("t1", p, c)
    \/ /\ TotalChildren <= MaxChildren
       /\ \E c \in Nodes, p \in Containers : CallSetParent("t1", c, p)
    \/ StepDirectory("t1")

SpecDirectory == InitDirectory /\ [][NextDirectory]_vars

\* ------------------------------------------------------------------------
\* DockerApp: interest in the address of other DockerApps, and run()
\* ------------------------------------------------------------------------

\* Everything but the state of the DockerApps.
dropVars ==
    <<status, execStatus, finishedProducers, completedInputs, stack,
      pendingExec, wiringVars, checksumType, containerVars, dirVars, ioVars,
      dataVars, historyVars>>

\* `isinstance(drop, DockerApp)`
isDockerApp(o) == o \in DockerApps

\* ContainerIpWaiter.__init__: a new event, the uid of the DROP, and the
\* subscription to its 'containerIp' events (target: whose broadcaster the
\* waiter is subscribed to).
ContainerIpWaiter(drop) ==
    [target |-> drop, uid |-> identity[drop].uid, set |-> FALSE, ip |-> NoIp]

\* DockerApp.handleInterest, called on q by the entity that creates the
\* DROPs.
handleInterest(q, drop) ==
    /\ Len(waiters[q]) < MaxWaiters
    /\ interested' = [interested EXCEPT ![q] = @ \cup {drop}]
    /\ IF /\ isDockerApp(drop)
          /\ Contains(command[q], Placeholder(identity[drop].uid))
       THEN waiters' = [waiters EXCEPT ![q] =
                           Append(@, ContainerIpWaiter(drop))]
       ELSE UNCHANGED waiters
    /\ UNCHANGED <<dropVars, identity, command, removeContainer, containerIp, runAt, runCmd,
                   waiterIdx, created, waited, exitCode, clientLog>>

\* A thread enters o.run(): cmd is the command with the path and dataURL
\* placeholders replaced (a DockerApp of this model has no input or output,
\* so none is there to replace).
run(o) ==
    /\ runAt[o] = "idle"
    /\ runAt' = [runAt EXCEPT ![o] = "waiters"]
    /\ runCmd' = [runCmd EXCEPT ![o] = command[o]]
    /\ waiterIdx' = [waiterIdx EXCEPT ![o] = 0]
    /\ UNCHANGED <<dropVars, identity, command, removeContainer, containerIp, waiters,
                   created, interested, waited, exitCode, clientLog>>

\* (a wait that gives up at once: Event.wait with a timeout of 0)
evtWaitTimesOut(w) == TRUE

\* ContainerIpWaiter.waitForIp: `self._evt.wait(timeout)` with no timeout
\* returns once the event is set.
evtWait(w) == w.set

\* run(), one turn of `for waiter in self._waiters`: wait for the address
\* and put it in the place of the placeholder of the waiter's uid.
run_waitForIp(o) ==
    /\ runAt[o] = "waiters"
    /\ waiterIdx[o] < Len(waiters[o])
    /\ LET waiter == waiters[o][waiterIdx[o] + 1]
       IN  /\ evtWait(waiter)
           /\ runCmd' = [runCmd EXCEPT ![o] =
                            replace(@, Placeholder(waiter.uid),
                                    Text(waiter.ip))]
           /\ waited' = [waited EXCEPT ![o] = Append(@, waiter.uid)]
    /\ waiterIdx' = [waiterIdx EXCEPT ![o] = @ + 1]
    /\ UNCHANGED <<dropVars, identity, command, removeContainer, containerIp, waiters, runAt,
                   created, interested, exitCode, clientLog>>

\* run(): the loop is over; the command is wrapped inside bash, the
\* container is created with it and started.
run_create_container(o) ==
    /\ runAt[o] = "waiters"
    /\ waiterIdx[o] >= Len(waiters[o])
    /\ created' = [created EXCEPT ![o] =
                      <<Text("/bin/bash -c")>> \o runCmd[o]]
    /\ clientLog' = [clientLog EXCEPT ![o] =
                        @ \o <<"create_container", "start">>]
    /\ runAt' = [runAt EXCEPT ![o] = "started"]
    /\ UNCHANGED <<dropVars, identity, command, removeContainer,
                   containerIp, waiters, runCmd, waiterIdx, interested,
                   waited, exitCode>>

\* (a setter that stores no address and fires no event)
containerIp_kept(o, ip) == UNCHANGED <<containerIp, waiters>>

\* The containerIp setter: the address is stored and a 'containerIp' event
\* is fired; the broadcaster calls handleEvent of every subscribed waiter,
\* which keeps the address and sets its event.
containerIp_set(o, ip) ==
    /\ containerIp' = [containerIp EXCEPT ![o] = ip]
    /\ waiters' =
          [q \in DockerApps |->
              [i \in 1..Len(waiters[q]) |->
                  IF waiters[q][i].target = o
                  THEN [waiters[q][i] EXCEPT !.set = TRUE, !.ip = ip]
                  ELSE waiters[q][i]]]

\* run(): the container is inspected and its address published.
run_inspect_container(o) ==
    /\ runAt[o] = "started"
    /\ \E ip \in ipsOf(o) : containerIp_set(o, ip)
    /\ clientLog' = [clientLog EXCEPT ![o] =
                        @ \o <<"inspect_container", "containerIp">>]
    /\ runAt' = [runAt EXCEPT ![o] = "running"]
    /\ UNCHANGED <<dropVars, identity, command, removeContainer, runCmd,
                   waiterIdx, created, interested, waited, exitCode>>

\* (a helper that removes the container whatever the flag says)
rmAlways(o) == <<"remove_container">>

\* The helper rm(container) of run(): the calls it makes on the client.
rm(o) == IF removeContainer[o] THEN <<"remove_container">> ELSE <<>>

\* run(): the container exits; with an exit code other than 0 the output
\* is read, the container removed and an exception raised, else the
\* container is removed and the client closed.
run_wait(o) ==
    /\ runAt[o] = "running"
    /\ \E code \in {0, 1} :
          /\ exitCode' = [exitCode EXCEPT ![o] = code]
          /\ clientLog' = [clientLog EXCEPT ![o] =
                              IF code = 0
                              THEN @ \o <<"wait">> \o rm(o) \o <<"close">>
                              ELSE @ \o <<"wait", "logs">> \o rm(o)]
          /\ runAt' = [runAt EXCEPT ![o] =
                           IF code = 0 THEN "returned" ELSE "raised"]
    /\ UNCHANGED <<dropVars, identity, command, removeContainer,
                   containerIp, waiters, runCmd, waiterIdx, created,
                   interested, waited>>

\* The commands DQ is constructed with: no placeholder, or placeholders
\* carrying the oid or the uid of DP or of DR.
Keys == {oid("DP"), oid("DR")} \cup uidsOf("DP")
Commands ==
    {<<Text("ping")>>}
        \cup {<<Text("ping"), Placeholder(k)>> : k \in Keys}
        \cup UNION {{<<Text("ping"), Placeholder(k1), Placeholder(k2)>> :
                        k2 \in Keys \ {k1}} : k1 \in Keys}

InitDocker ==
    \E u \in uidsOf("DP"), c \in Commands :
        /\ InitDrops(EmptyGraph(AllAuto), NoExpectedSize)
        /\ InitDockerApps(
              [o \in DockerApps |->
                  [oid |-> oid(o), uid |-> IF o = "DP" THEN u ELSE oid(o)]],
              [o \in DockerApps |->
                  IF o = "DQ" THEN c ELSE <<Text("true")>>],
              [o \in DockerApps |-> TRUE])

StepDocker(o) ==
    \/ run_waitForIp(o) \/ run_create_container(o)
    \/ run_inspect_container(o) \/ run_wait(o)

NextDocker ==
    \/ \E drop \in DockerApps \cup {"A"} : handleInterest("DQ", drop)
    \/ \E o \in DockerApps : run(o) \/ StepDocker(o)

SpecDocker == InitDocker /\ [][NextDocker]_vars

\* DP and DQ alone, DQ's command referring to the address of DP by DP's
\* uid; a thread in run() goes on running.
InitDockerFair ==
    \E u \in uidsOf("DP") :
        /\ InitDrops(EmptyGraph(AllAuto), NoExpectedSize)
        /\ InitDockerApps(
              [o \in DockerApps |->
                  [oid |-> oid(o), uid |-> IF o = "DP" THEN u ELSE oid(o)]],
              [o \in DockerApps |->
                  IF o = "DQ" THEN <<Text("ping"), Placeholder(u)>>
                  ELSE <<Text("true")>>],
              [o \in DockerApps |-> TRUE])

NextDockerFair ==
    \/ handleInterest("DQ", "DP")
    \/ \E o \in {"DP", "DQ"} : run(o) \/ StepDocker(o)

SpecDockerFair ==
    /\ InitDockerFair /\ [][NextDockerFair]_vars
    /\ \A o \in {"DP", "DQ"} : WF_vars(StepDocker(o))

\* run(): a call on the docker client raises before the address is
\* published (create_container once the waiters are through, or
\* inspect_container after the start); nothing catches it, so run() raises
\* with containerIp unset and the container left behind.
run_fails(o) ==
    /\ \/ runAt[o] = "waiters" /\ waiterIdx[o] >= Len(waiters[o])
       \/ runAt[o] = "started"
    /\ clientLog' = [clientLog EXCEPT ![o] =
                        Append(@, IF runAt[o] = "waiters"
                                  THEN "create_container"
                                  ELSE "inspect_container")]
    /\ runAt' = [runAt EXCEPT ![o] = "raised"]
    /\ UNCHANGED <<dropVars, identity, command, removeContainer,
                   containerIp, waiters, runCmd, waiterIdx, created,
                   interested, waited, exitCode>>

\* DP and DQ, each of whose commands may refer to the address of the other;
\* the interests are registered before any of the two runs.
InitDockerWait ==
    \E u \in uidsOf("DP"), p \in BOOLEAN, q \in BOOLEAN :
        /\ InitDrops(EmptyGraph(AllAuto), NoExpectedSize)
        /\ InitDockerApps(
              [o \in DockerApps |->
                  [oid |-> oid(o), uid |-> IF o = "DP" THEN u ELSE oid(o)]],
              [o \in DockerApps |->
                  CASE o = "DP" /\ p ->
                          <<Text("ping"), Placeholder(oid("DQ"))>>
                    [] o = "DQ" /\ q -> <<Text("ping"), Placeholder(u)>>
                    [] OTHER -> <<Text("true")>>],
              [o \in DockerApps |-> TRUE])

StartDockerWait == \E o \in {"DP", "DQ"} : run(o)

RegisterDockerWait ==
    /\ \A o \in DockerApps : runAt[o] = "idle"
    /\ handleInterest("DQ", "DP") \/ handleInterest("DP", "DQ")

NextDockerWait ==
    \/ RegisterDockerWait
    \/ StartDockerWait
    \/ \E o \in {"DP", "DQ"} : StepDocker(o) \/ run_fails(o)

\* Both applications are eventually run, and a thread in run() that is not
\* blocked goes on.
SpecDockerWait ==
    /\ InitDockerWait /\ [][NextDockerWait]_vars
    /\ \A o \in {"DP", "DQ"} : WF_vars(run(o)) /\ WF_vars(StepDocker(o))

\* ------------------------------------------------------------------------
\* AppDROP.execStatus (setter), BarrierAppDROP.execute
\* ------------------------------------------------------------------------

\* A thread started by BarrierAppDROP.dropCompleted begins to run
\* `lambda: self.execute()`.
StartWorker(t, x) ==
    /\ Idle(t)
    /\ pendingExec[x] > 0
    /\ pendingExec' = [pendingExec EXCEPT ![x] = @ - 1]
    /\ stack' = [stack EXCEPT ![t] =
                    <<Frame("execute", x, "-", "-", 0), Returned>>]
    /\ UNCHANGED <<status, execStatus, finishedProducers, completedInputs,
                   wiringVars, extVars, ioVars, dataVars, historyVars>>

\* execute: execStatus = RUNNING, then the try block.
execute(t) ==
    /\ At(t, "execute")
    /\ Continue(t, <<Frame("execStatus_set", Top(t).a, "-", "RUNNING", 0),
                     Frame("run", Top(t).a, "-", "-", 0)>>)
    /\ UNCHANGED <<status, execStatus, finishedProducers, completedInputs,
                   pendingExec, wiringVars, extVars, ioVars, dataVars, historyVars>>

\* The execStatus setter: nothing if the value is the current one, else the
\* value is set and the 'execStatus' event is fired.
execStatus_set(t) ==
    /\ At(t, "execStatus_set")
    /\ LET x == Top(t).a
           value == Top(t).v
       IN  IF execStatus[x] = value
           THEN /\ Continue(t, <<>>)
                /\ UNCHANGED execStatus
           ELSE /\ execStatus' = [execStatus EXCEPT ![x] = value]
                /\ Continue(t, <<Frame("execStatus_fire", x, "-", value, 1)>>)
    /\ UNCHANGED <<status, finishedProducers, completedInputs, pendingExec,
                   wiringVars, extVars, ioVars, dataVars, historyVars>>

\* LocalEventBroadcaster.fire('execStatus')
execStatus_fire(t) ==
    /\ At(t, "execStatus_fire")
    /\ LET x == Top(t).a
           i == Top(t).n
       IN  IF i > Len(execSubs[x])
           THEN Continue(t, <<>>)
           ELSE Continue(t, <<Frame("appFinished_handler", x, execSubs[x][i],
                                    Top(t).v, 0),
                              CallbackEnd,
                              Frame("execStatus_fire", x, "-", Top(t).v, i + 1)>>)
    /\ UNCHANGED <<status, execStatus, finishedProducers, completedInputs,
                   pendingExec, wiringVars, extVars, ioVars, dataVars, historyVars>>

\* (a closure that forgets the ERROR case)
FinishedOnly(value) == value = "FINISHED"

\* (a closure that passes every event on)
EveryExecStatus(value) == TRUE

\* The events the closure of addOutput passes on to the output.
NotifiesOutput(value) == value \in {"FINISHED", "ERROR"}

\* The closure appFinished(e) defined in addOutput (a: the application,
\* b: the output, v: e.execStatus).
appFinished_handler(t) ==
    /\ At(t, "appFinished_handler")
    /\ IF ~NotifiesOutput(Top(t).v)
       THEN Continue(t, <<>>) /\ UNCHANGED pfSent
       ELSE /\ Continue(t, <<Frame("producerFinished", Top(t).b,
                                   uid(Top(t).a), "-", 0)>>)
            /\ pfSent' = [pfSent EXCEPT ![Top(t).a] =
                             Append(@, [output |-> Top(t).b,
                                        execStatus |-> Top(t).v])]
    /\ UNCHANGED <<status, execStatus, finishedProducers, completedInputs,
                   pendingExec, wiringVars, extVars, ioVars, dataVars,
                   execScheduled, dcLog, pfCalled, called, outcome,
                   runRaised, execRaised, wiringRaised>>

\* run() returns: execStatus = FINISHED, then the finally block.
run_returns(t) ==
    /\ At(t, "run")
    /\ Continue(t, <<Frame("execStatus_set", Top(t).a, "-", "FINISHED", 0),
                     Frame("execute_finally", Top(t).a, "-", "ok", 0)>>)
    /\ UNCHANGED <<status, execStatus, finishedProducers, completedInputs,
                   pendingExec, wiringVars, extVars, ioVars, dataVars, historyVars>>

\* run() raises: the except block sets ERROR, then the finally block.
run_raises(t) ==
    /\ At(t, "run")
    /\ runRaised' = runRaised \cup {Top(t).a}
    /\ Continue(t, <<Frame("execStatus_set", Top(t).a, "-", "ERROR", 0),
                     Frame("execute_finally", Top(t).a, "-", "raise", 0)>>)
    /\ UNCHANGED <<status, execStatus, finishedProducers, completedInputs,
                   pendingExec, wiringVars, extVars, ioVars, dataVars, execScheduled, dcLog,
                   pfCalled, pfSent, called, outcome, execRaised, wiringRaised>>

\* The finally block of execute: status = COMPLETED; then execute returns,
\* or raises again what the try block raised.
execute_finally(t) ==
    /\ At(t, "execute_finally")
    /\ Continue(t, <<Frame("status_set", Top(t).a, "-", "COMPLETED", 0),
                     Frame("execute_exit", Top(t).a, "-", Top(t).v, 0)>>)
    /\ UNCHANGED <<status, execStatus, finishedProducers, completedInputs,
                   pendingExec, wiringVars, extVars, ioVars, dataVars, historyVars>>

execute_exit(t) ==
    /\ At(t, "execute_exit")
    /\ IF Top(t).v = "raise"
       THEN /\ execRaised' = execRaised \cup {Top(t).a}
            /\ Raise(t)
       ELSE /\ Continue(t, <<>>)
            /\ UNCHANGED execRaised
    /\ UNCHANGED <<status, execStatus, finishedProducers, completedInputs,
                   pendingExec, wiringVars, extVars, ioVars, dataVars, execScheduled, dcLog,
                   pfCalled, pfSent, called, outcome, runRaised, wiringRaised>>

\* Every step of the methods above.
Step(t) ==
    \/ status_set(t) \/ status_fire(t) \/ dropCompleted_handler(t)
    \/ callback_end(t) \/ dropCompleted(t) \/ dropCompleted_check(t)
    \/ setCompleted(t) \/ setCompleted_streaming(t)
    \/ producerFinished(t) \/ producerFinished_record(t)
    \/ producerFinished_complete(t)
    \/ execute(t) \/ execStatus_set(t) \/ execStatus_fire(t)
    \/ appFinished_handler(t) \/ run_returns(t) \/ run_raises(t)
    \/ execute_finally(t) \/ execute_exit(t)
    \/ return(t) \/ fail(t)

\* ------------------------------------------------------------------------
\* DockerApp.execute: BarrierAppDROP.execute around DockerApp.run
\* ------------------------------------------------------------------------

\* DockerApp is a subclass of BarrierAppDROP: the application x, seen as a
\* DockerApp.
dockerOf(x) == IF x = "X" THEN "DP" ELSE "DQ"

\* Client code calls x.execute(), once.
CallExecute(t, x) ==
    /\ Idle(t)
    /\ "execute" \notin called[x]
    /\ stack' = [stack EXCEPT ![t] =
                    <<Frame("execute", x, "-", "-", 0), Returned>>]
    /\ called' = [called EXCEPT ![x] = @ \cup {"execute"}]
    /\ UNCHANGED <<status, execStatus, finishedProducers, completedInputs,
                   pendingExec, wiringVars, extVars, ioVars, dataVars,
                   execScheduled, dcLog, pfCalled, pfSent, outcome, runRaised,
                   execRaised, wiringRaised>>

\* execute: `self.run()` enters DockerApp.run.
execute_run(t) ==
    /\ At(t, "run")
    /\ run(dockerOf(Top(t).a))

\* execute: DockerApp.run returned, or raised.
execute_run_returns(t) ==
    /\ At(t, "run")
    /\ runAt[dockerOf(Top(t).a)] = "returned"
    /\ run_returns(t)

execute_run_raises(t) ==
    /\ At(t, "run")
    /\ runAt[dockerOf(Top(t).a)] = "raised"
    /\ run_raises(t)

\* X and Y are DockerApps with no waiter, input or output; removeContainer
\* is given at construction.
InitDockerExec ==
    \E removes \in [DockerApps -> BOOLEAN] :
        /\ removes["DR"]
        /\ InitDrops(EmptyGraph(AllAuto), NoExpectedSize)
        /\ InitDockerApps(
              [o \in DockerApps |-> [oid |-> oid(o), uid |-> oid(o)]],
              [o \in DockerApps |-> <<Text("true")>>],
              removes)

StepDockerExec(t) ==
    \/ execute(t) \/ execStatus_set(t) \/ execStatus_fire(t)
    \/ execute_run(t) \/ execute_run_returns(t) \/ execute_run_raises(t)
    \/ execute_finally(t) \/ execute_exit(t)
    \/ status_set(t) \/ status_fire(t)
    \/ return(t) \/ fail(t)

\* Thread t1 executes X and thread t2 executes Y.
NextDockerExec ==
    \/ CallExecute("t1", "X")
    \/ CallExecute("t2", "Y")
    \/ \E t \in Clients : StepDockerExec(t)
    \/ \E o \in {"DP", "DQ"} :
          run_create_container(o) \/ run_inspect_container(o) \/ run_wait(o)

SpecDockerExec == InitDockerExec /\ [][NextDockerExec]_vars

\* ------------------------------------------------------------------------
\* A DROP whose three producers report concurrently
\* ------------------------------------------------------------------------

\* X, Y and P are the producers of B.
ProducersGraph ==
    addOutput(
      addOutput(
        addOutput(EmptyGraph(AllAuto), "X", "B"),
        "Y", "B"),
      "P", "B")

InitProducers == InitWith(ProducersGraph, NoExpectedSize)

\* The thread that reports for each producer.
reporterOf(x) == CASE x = "X" -> "t1" [] x = "Y" -> "t2" [] x = "P" -> "w1"

StepProducers(t) ==
    \/ producerFinished(t) \/ producerFinished_record(t)
    \/ producerFinished_complete(t)
    \/ setCompleted(t) \/ setCompleted_streaming(t)
    \/ status_set(t) \/ status_fire(t)
    \/ return(t)

\* Each producer's thread calls B.producerFinished(uid) once.
NextProducers ==
    \/ \E x \in {"X", "Y", "P"} :
          /\ uid(x) \notin pfCalled["B"]
          /\ outcome[reporterOf(x)] = "none"
          /\ CallProducerFinished(reporterOf(x), "B", uid(x))
    \/ \E t \in {"t1", "t2", "w1"} : StepProducers(t)

SpecProducers == InitProducers /\ [][NextProducers]_vars

\* ------------------------------------------------------------------------
\* A barrier with two inputs that two threads complete concurrently
\* ------------------------------------------------------------------------

\* A and B are the inputs of X, C is its output.
BarrierGraph ==
    addOutput(
      addConsumer(
        addInput(EmptyGraph(AllAuto), "X", "A"),
        "B", "X"),
      "X", "C")

InitBarrier == InitWith(BarrierGraph, NoExpectedSize)

\* Thread t1 completes A and thread t2 completes B, each once.
NextBarrier ==
    \/ "setCompleted" \notin called["A"] /\ CallSetCompleted("t1", "A")
    \/ "setCompleted" \notin called["B"] /\ CallSetCompleted("t2", "B")
    \/ \E t \in Workers : StartWorker(t, "X")
    \/ \E t \in Threads : Step(t)

SpecBarrier == InitBarrier /\ [][NextBarrier]_vars

\* ------------------------------------------------------------------------
\* A chain of two barriers: A -> X -> B -> Y -> C
\* ------------------------------------------------------------------------

ChainGraph ==
    addOutput(
      addInput(
        addOutput(
          addInput(EmptyGraph(AllAuto), "X", "A"),
          "X", "B"),
        "Y", "B"),
      "Y", "C")

InitChain == InitWith(ChainGraph, NoExpectedSize)

ChainThreads == {"t1"} \cup Workers

StartChain == \E t \in Workers, x \in BarrierApps : StartWorker(t, x)

\* The client completes A; the rest is up to the DROPs.
NextChain ==
    \/ CallSetCompleted("t1", "A")
    \/ StartChain
    \/ \E t \in ChainThreads : Step(t)

\* A thread that can take a step eventually takes it, and a started thread
\* eventually runs.
SpecChain ==
    /\ InitChain
    /\ [][NextChain]_vars
    /\ \A t \in ChainThreads : WF_vars(Step(t))
    /\ WF_vars(StartChain)

\* ------------------------------------------------------------------------
\* A barrier one of whose inputs is wired late: B -> X -> C, and A -> X
\* added by client code at any time
\* ------------------------------------------------------------------------

LateWireGraph ==
    addOutput(addInput(EmptyGraph(AllAuto), "X", "B"), "X", "C")

InitLateWire == InitWith(LateWireGraph, NoExpectedSize)

\* The client completes A and B and wires A to X, from either side, in any
\* order, one call at a time.
NextLateWire ==
    \/ \E d \in {"A", "B"} : CallSetCompleted("t1", d)
    \/ Idle("t1") /\ CallAddConsumer("A", "X")
    \/ Idle("t1") /\ CallAddInput("X", "A")
    \/ StartChain
    \/ \E t \in ChainThreads : Step(t)

SpecLateWire ==
    /\ InitLateWire
    /\ [][NextLateWire]_vars
    /\ \A t \in ChainThreads : WF_vars(Step(t))
    /\ WF_vars(StartChain)

\* ------------------------------------------------------------------------
\* Properties
\* ------------------------------------------------------------------------

StatusRank(s) ==
    CASE s = "INITIALIZED" -> 0 [] s = "WRITING" -> 1 [] s = "COMPLETED" -> 2

\* Every input of application x is COMPLETED.
AllInputsAreCompleted(x) ==
    \A d \in SeqToSet(inputs[x]) : status[d] = "COMPLETED"

\* The dropCompleted calls consumer c received for DROP d.
DeliveriesFrom(c, d) == {i \in 1..Len(dcLog[c]) : dcLog[c][i].uid = uid(d)}

\* No thread is inside execute of application x.
NotExecuting(x) ==
    \A t \in Threads : \A i \in 1..Len(stack[t]) :
        ~(/\ stack[t][i].a = x
          /\ stack[t][i].op \in {"execute", "run", "execute_finally",
                                 "execute_exit"})

\* Client code called neither write nor setCompleted on d.
OnlyProducersDrive(d) ==
    "write" \notin called[d] /\ "setCompleted" \notin called[d]

EveryProducerReported(d) ==
    \A p \in SeqToSet(producers[d]) : uid(p) \in pfCalled[d]

\* C1 (SpecDrop): under any sequence of write, setCompleted and
\* producerFinished calls of one thread, successful or failing, the status
\* of the DROP never goes back in INITIALIZED < WRITING < COMPLETED.
StatusNeverDecreases ==
    [][StatusRank(status'["B"]) >= StatusRank(status["B"])]_vars

\* C1 witness: a write made after the DROP was COMPLETED has raised.
WriteAfterCompletedRaised ==
    /\ status["B"] = "COMPLETED"
    /\ Idle("t1")
    /\ outcome["t1"] = "raised"
    /\ "write" \in called["B"]

\* C2 (SpecBarrier): the barrier's execute is scheduled exactly once after
\* all its inputs are COMPLETED: never twice, and once when the completing
\* calls have returned.
ExecuteScheduledExactlyOnce ==
    /\ execScheduled["X"] <= 1
    /\ (AllInputsAreCompleted("X") /\ Idle("t1") /\ Idle("t2"))
            => execScheduled["X"] = 1

\* C3 (SpecBarrier): execute is not scheduled, and execStatus does not leave
\* NOT_RUN, while an input of the barrier is not COMPLETED.
NoExecuteBeforeInputsCompleted ==
    \A x \in BarrierApps :
        (execScheduled[x] > 0 \/ execStatus[x] # "NOT_RUN")
            => AllInputsAreCompleted(x)

\* C3 witness: the barrier runs, with both inputs completed by two threads.
BarrierRunning ==
    /\ execStatus["X"] = "RUNNING"
    /\ completedInputs["X"] \in {<<"a1", "b1">>, <<"b1", "a1">>}

\* C4 (SpecDrop): a DROP that only its producers drive is COMPLETED only if
\* every registered producer called producerFinished with its uid, and it is
\* COMPLETED once they all did.
CompletedIffAllProducersFinished ==
    OnlyProducersDrive("B") =>
        /\ status["B"] = "COMPLETED" => EveryProducerReported("B")
        /\ (EveryProducerReported("B") /\ Idle("t1"))
                => status["B"] = "COMPLETED"

\* C5 (SpecChain): when run raised, then after execute execStatus is ERROR,
\* the status is COMPLETED, every output received producerFinished with the
\* application's uid (and is COMPLETED if it has no other producer), and
\* execute raised to its caller.
RunFailureStillCompletes ==
    \A x \in BarrierApps :
        (x \in runRaised /\ NotExecuting(x)) =>
            /\ execStatus[x] = "ERROR"
            /\ status[x] = "COMPLETED"
            /\ x \in execRaised
            /\ \A o \in SeqToSet(outputs[x]) :
                  /\ uid(x) \in pfCalled[o]
                  /\ producers[o] = <<x>> => status[o] = "COMPLETED"

\* C5 witness: execute of X has raised and its output B is COMPLETED.
ExecuteOfXRaised ==
    /\ "X" \in execRaised
    /\ NotExecuting("X")
    /\ status["B"] = "COMPLETED"

\* C6 (SpecChain): once A is COMPLETED, B and C are eventually COMPLETED
\* (threads are scheduled fairly and every run ends, by returning or by
\* raising).
DownstreamEventuallyCompleted ==
    (status["A"] = "COMPLETED")
        ~> (status["B"] = "COMPLETED" /\ status["C"] = "COMPLETED")

\* C6 witness: the end of the chain is COMPLETED although a run raised.
ChainCompletedDespiteError ==
    /\ status["A"] = "COMPLETED"
    /\ status["C"] = "COMPLETED"
    /\ runRaised # {}

\* C7 (SpecBarrier): whenever the status of a barrier application becomes
\* COMPLETED, its execStatus is FINISHED or ERROR.
CompletedOnlyAfterExecEnded ==
    [][\A x \in BarrierApps :
          (status[x] # "COMPLETED" /\ status'[x] = "COMPLETED")
              => execStatus[x] \in {"FINISHED", "ERROR"}]_vars

\* C8 (SpecDrop): a DROP in EXTERNAL mode has its consumers recorded, is an
\* input of each of them, and no normal consumer ever receives dropCompleted.
ExternalNeverTriggers ==
    executionMode["B"] = "EXTERNAL" =>
        /\ consumers["B"] = <<"P", "Q">>
        /\ \A c \in {"P", "Q"} :
              InSeq("B", inputs[c]) /\ dcLog[c] = <<>>

\* C8 witness: a DROP in EXTERNAL mode was COMPLETED and the call returned.
ExternalCompleted ==
    /\ executionMode["B"] = "EXTERNAL"
    /\ status["B"] = "COMPLETED"
    /\ Idle("t1")

\* C9 (SpecDrop): in DROP mode every normal consumer receives
\* dropCompleted(uid) at most once, the status reading COMPLETED when it
\* does; it has received none while the status is not COMPLETED, and one
\* when the completing call has returned.
ConsumersTriggeredOnceWhenCompleted ==
    executionMode["B"] = "DROP" =>
        \A c \in SeqToSet(consumers["B"]) :
            /\ Cardinality(DeliveriesFrom(c, "B")) <= 1
            /\ \A i \in DeliveriesFrom(c, "B") : dcLog[c][i].seen = "COMPLETED"
            /\ status["B"] # "COMPLETED" => DeliveriesFrom(c, "B") = {}
            /\ (status["B"] = "COMPLETED" /\ Idle("t1"))
                    => Cardinality(DeliveriesFrom(c, "B")) = 1

\* C9 witness: a DROP in DROP mode went through WRITING (several writes, no
\* expected size) and was then COMPLETED.
CompletedAfterWriting ==
    /\ executionMode["B"] = "DROP"
    /\ expectedSize["B"] = None
    /\ size["B"] = MaxSize
    /\ status["B"] = "COMPLETED"
    /\ Idle("t1")

\* The three relations are the same seen from both ends.
Symmetric ==
    \A d \in Objs, a \in Objs :
        /\ InSeq(a, consumers[d]) <=> InSeq(d, inputs[a])
        /\ InSeq(a, streamingConsumers[d]) <=> InSeq(d, streamingInputs[a])
        /\ InSeq(a, producers[d]) <=> InSeq(d, outputs[a])

\* C10 (SpecWire): as long as no wiring call raised, consumers/inputs,
\* streamingConsumers/streamingInputs and producers/outputs are symmetric.
WiringSymmetric == ~wiringRaised => Symmetric

\* C10 witness: edges of the three kinds were made, from both sides.
WiredAllKinds ==
    /\ ~wiringRaised
    /\ consumers["A"] = <<"P", "X">>
    /\ streamingConsumers["P"] = <<"P">>
    /\ producers["A"] = <<"X", "P">>
    /\ outputs["X"] = <<"P", "A">>

\* The objects the wiring specification links.
WireObjs == WireDrops \cup WireApps

\* No list of the graph holds an object twice.
NoDuplicates ==
    \A o \in WireObjs, x \in WireObjs :
        /\ Count(x, consumers[o]) <= 1
        /\ Count(x, streamingConsumers[o]) <= 1
        /\ Count(x, producers[o]) <= 1
        /\ Count(x, inputs[o]) <= 1
        /\ Count(x, outputs[o]) <= 1
        /\ Count(x, streamingInputs[o]) <= 1

\* One handler per consumer (in DROP mode) and one per output.
OneHandlerPerEdge ==
    \A o \in WireObjs, x \in WireObjs :
        /\ executionMode[o] = "DROP"
              => Count(x, statusSubs[o]) = Count(x, consumers[o])
        /\ Count(x, execSubs[o]) = Count(x, outputs[o])

\* Where a consumer (a producer) is registered, the call that registered it
\* made again, from either end, returns without an exception and changes
\* nothing.
RepeatedCallChangesNothing ==
    \A d \in WireDrops, a \in WireApps :
        /\ (InSeq(a, consumers[d]) /\ InSeq(d, inputs[a])) =>
              /\ addConsumer(Graph, d, a) = Graph
              /\ addInput(Graph, a, d) = Graph
        /\ (InSeq(a, producers[d]) /\ InSeq(d, outputs[a])) =>
              /\ addProducer(Graph, d, a) = Graph
              /\ addOutput(Graph, a, d) = Graph

\* C11 (SpecWire): wiring is idempotent. addConsumer/addInput and
\* addProducer/addOutput made again leave the state of the first call; no
\* object is twice in a list, each consumer has one completion handler and
\* each output one execStatus handler.
WiringIdempotent ==
    NoDuplicates /\ OneHandlerPerEdge /\ RepeatedCallChangesNothing

\* C11 witness: X consumes A and P produces A, wired without an exception
\* in DROP mode (the state every repetition of these calls has to keep).
WiredConsumerAndProducer ==
    /\ ~wiringRaised
    /\ executionMode["A"] = "DROP"
    /\ consumers["A"] = <<"X">> /\ inputs["X"] = <<"A">>
    /\ statusSubs["A"] = <<"X">>
    /\ producers["A"] = <<"P">> /\ outputs["P"] = <<"A">>
    /\ execSubs["P"] = <<"A">>

\* C12 (SpecWire): no object is a normal and a streaming consumer of the
\* same DROP; addConsumer of a streaming consumer and addStreamingConsumer
\* of a normal consumer raise and leave both lists of the DROP as they were.
ConsumerKindsExclusive ==
    \A d \in WireDrops, a \in WireApps :
        /\ ~(InSeq(a, consumers[d]) /\ InSeq(a, streamingConsumers[d]))
        /\ InSeq(a, streamingConsumers[d]) =>
              LET g == addConsumer(Graph, d, a)
              IN  /\ g.exc
                  /\ g.consumers[d] = consumers[d]
                  /\ g.streamingConsumers[d] = streamingConsumers[d]
        /\ InSeq(a, consumers[d]) =>
              LET g == addStreamingConsumer(Graph, d, a)
              IN  /\ g.exc
                  /\ g.consumers[d] = consumers[d]
                  /\ g.streamingConsumers[d] = streamingConsumers[d]

\* C12 witness: A has a normal and a streaming consumer, and a call was
\* rejected.
RejectedWithBothKinds ==
    /\ wiringRaised
    /\ consumers["A"] = <<"X">>
    /\ streamingConsumers["A"] = <<"P">>
    /\ inputs["X"] = <<"A">>
    /\ streamingInputs["P"] = <<"A">>

\* C13 (SpecWire): a barrier application is in no streamingConsumers list
\* and has no streaming input, whatever wiring calls were made.
BarrierNeverStreamingConsumer ==
    \A x \in BarrierApps, d \in Objs :
        /\ ~InSeq(x, streamingConsumers[d])
        /\ ~InSeq(d, streamingInputs[x])

\* C14 (SpecWire): an application is neither its own output nor its own
\* producer, whatever wiring calls were made.
NeverOwnOutputOrProducer ==
    \A a \in Apps : ~InSeq(a, outputs[a]) /\ ~InSeq(a, producers[a])

\* The bytes the storage accepted, write after write.
Accepted(d) ==
    LET RECURSIVE Cat(_)
        Cat(i) == IF i = 0 THEN <<>>
                  ELSE Cat(i - 1) \o SubSeq(writeLog[d][i].data, 1,
                                            writeLog[d][i].nbytes)
    IN  Cat(Len(writeLog[d]))

\* Some write was short: the storage accepted less than it was given.
SomeShortWrite(d) ==
    \E i \in 1..Len(writeLog[d]) :
        /\ writeLog[d][i].nbytes > 0
        /\ writeLog[d][i].nbytes < Len(writeLog[d][i].data)

\* C15 (SpecWrite): a write on a DROP that is neither INITIALIZED nor
\* WRITING raises, and size, checksum, status, writer and the dataWritten
\* calls received are what they were.
WriteInInvalidStateChangesNothing ==
    [][(At("t1", "write") /\ ~(status["B"] \in {"INITIALIZED", "WRITING"}))
          => /\ stack'["t1"][1].op = "failed"
             /\ UNCHANGED <<size, checksum, status, wio, received,
                            writeLog>>]_vars

\* C15 witness: a write has raised on an EXPIRED DROP that had been written.
WriteOnExpiredRaised ==
    /\ status["B"] = "EXPIRED"
    /\ Idle("t1") /\ outcome["t1"] = "raised"
    /\ called["B"] = {"write", "status"}
    /\ size["B"] = 1 /\ wio["B"] = "open"

\* C16 (SpecWrite): after a successful write (and no other call), the
\* status is COMPLETED if an expected size was given and the size reached or
\* passed it, and WRITING otherwise.
StatusFollowsExpectedSize ==
    (Idle("t1") /\ outcome["t1"] = "returned" /\ called["B"] = {"write"})
        => status["B"] =
              IF expectedSize["B"] > 0 /\ size["B"] >= expectedSize["B"]
              THEN "COMPLETED" ELSE "WRITING"

\* C16 witness: the writes went over the expected size.
CompletedByOvershoot ==
    /\ Idle("t1") /\ outcome["t1"] = "returned"
    /\ called["B"] = {"write"}
    /\ expectedSize["B"] > 0 /\ size["B"] > expectedSize["B"]
    /\ status["B"] = "COMPLETED"

\* C17 (SpecWrite): the size is the number of bytes the storage accepted,
\* and None as long as no write reached the storage.
SizeIsSumOfAcceptedBytes ==
    size["B"] = IF writeLog["B"] = <<>> THEN None ELSE Len(Accepted("B"))

\* C17 witness: two writes returned, one of them short.
ShortWriteReturned ==
    /\ Idle("t1") /\ outcome["t1"] = "returned"
    /\ Len(writeLog["B"]) = 2
    /\ SomeShortWrite("B")

\* C18 (SpecWrite): after the write calls, the checksum is the running
\* checksum of the bytes the storage accepted.
ChecksumOverAcceptedBytes ==
    Idle("t1") =>
        checksum["B"] = IF writeLog["B"] = <<>> THEN None
                        ELSE crc32(Accepted("B"), 0)

\* C19 (SpecWrite): each streaming consumer received, write after write,
\* the accepted bytes of the write, all of them before the stream end; it
\* received the stream end at most once, after the last write, and once
\* when the DROP is COMPLETED.
StreamingConsumersSeeWritesInOrder ==
    \A c \in SeqToSet(streamingConsumers["B"]) :
        /\ Len(received[c]) <= Len(writeLog["B"])
        /\ Idle("t1") => Len(received[c]) = Len(writeLog["B"])
        /\ \A i \in 1..Len(received[c]) :
              /\ received[c][i].uid = uid("B")
              /\ received[c][i].data =
                    SubSeq(writeLog["B"][i].data, 1, writeLog["B"][i].nbytes)
              /\ received[c][i].ended = 0
        /\ Cardinality(DeliveriesFrom(c, "B")) <= 1
        /\ DeliveriesFrom(c, "B") # {}
              => Len(received[c]) = Len(writeLog["B"])
        /\ (Idle("t1") /\ status["B"] = "COMPLETED")
              => Cardinality(DeliveriesFrom(c, "B")) = 1

\* C19 witness: two writes, one of them short, and then the stream end.
StreamEndedAfterShortWrite ==
    /\ Idle("t1") /\ status["B"] = "COMPLETED"
    /\ Len(writeLog["B"]) = 2 /\ SomeShortWrite("B")
    /\ Len(received["Q"]) = 2 /\ Len(received["S"]) = 2
    /\ DeliveriesFrom("Q", "B") # {}

\* C20 (SpecRead): after the open and close calls the reference count is
\* the number of descriptors opened and not yet closed, it is never
\* negative, and isBeingRead says whether a descriptor is open.
RefCountIsOpenDescriptors ==
    /\ refCount["A"] >= 0
    /\ Idle("t1") =>
          /\ refCount["A"] = Cardinality(held["A"].open)
          /\ isBeingRead("A") <=> held["A"].open # {}

\* C20 witness: two descriptors were opened, the DROP was read and one
\* descriptor was closed.
OneOfTwoDescriptorsClosed ==
    /\ Idle("t1") /\ outcome["t1"] = "returned"
    /\ "read" \in called["A"]
    /\ Cardinality(held["A"].open) = 1
    /\ held["A"].closed # {}
    /\ held["A"].open \cap held["A"].closed = {}

\* C21 (SpecRead): open on a DROP that is not COMPLETED raises, and so do
\* read and close with a descriptor that open never returned or that was
\* closed; the descriptors and the reference count are what they were (the
\* statements that keep the IO, count it and fire 'open' are not reached).
InvalidReadCallsChangeNothing ==
    [][/\ (At("t1", "open") /\ status["A"] # "COMPLETED")
            => /\ stack'["t1"][1].op = "failed"
               /\ UNCHANGED <<rios, refCount, held>>
       /\ ((At("t1", "close") \/ At("t1", "read"))
              /\ Top("t1").n \notin held["A"].open)
            => /\ stack'["t1"][1].op = "failed"
               /\ UNCHANGED <<rios, refCount, held>>]_vars

\* C21 witness: on a COMPLETED DROP with one descriptor open and another
\* one closed, a call has raised.
RaisedWithDescriptorOpen ==
    /\ Idle("t1") /\ outcome["t1"] = "raised"
    /\ status["A"] = "COMPLETED"
    /\ called["A"] = {"setCompleted", "open", "close"}
    /\ held["A"].open # {} /\ held["A"].closed # {}
    /\ refCount["A"] = 1

\* C22 (SpecRead): close with a descriptor that is open gives the reference
\* back and releases the descriptor, whatever the status of the DROP.
CloseOfOpenDescriptorReleases ==
    [][(At("t1", "close") /\ Top("t1").n \in rios["A"])
          => /\ refCount'["A"] = refCount["A"] - 1
             /\ stack'["t1"][1].op = "close_pop"]_vars

\* The value of an attribute of d after the step.
AttributeAfter(d, attr) ==
    CASE attr = "checksum" -> checksum'[d]
      [] attr = "checksumType" -> checksumType'[d]
      [] attr = "size" -> size'[d]

\* C23 (SpecAttribute): an assignment to checksum, checksumType or size
\* sets the value when the attribute is unset and the DROP is neither
\* INITIALIZED nor WRITING; otherwise it raises and the value is what it
\* was. A value that is set is not changed by an assignment.
AttributesSetOnce ==
    [][At("t1", "attribute_set") =>
          LET attr == Top("t1").b
              before == Attribute("B", attr)
              after == AttributeAfter("B", attr)
          IN  IF before = Unset(attr)
                 /\ status["B"] \notin {"INITIALIZED", "WRITING"}
              THEN after = Top("t1").v /\ stack'["t1"][1].op = "returned"
              ELSE after = before /\ stack'["t1"][1].op = "failed"]_vars

\* C23 witness: the size was assigned after COMPLETED, the checksum was set
\* by write, and an assignment has raised.
AssignmentRaisedOnSetAttribute ==
    /\ Idle("t1") /\ outcome["t1"] = "raised"
    /\ status["B"] = "COMPLETED"
    /\ checksum["B"] # None /\ checksumType["B"] = "CRC_32"
    /\ writeLog["B"] # <<>>
    /\ "checksum" \in called["B"]

\* C27 (SpecDrop): a producerFinished call whose uid is not the uid of a
\* registered producer raises, and so does one made when as many uids are
\* recorded as producers are registered; neither changes the status, the
\* finished producers or the notifications delivered to the consumers.
InvalidReportChangesNothing ==
    [][\A d \in Objs :
         LET unknown == /\ At("t1", "producerFinished") /\ Top("t1").a = d
                        /\ Top("t1").b \notin
                              {uid(p) : p \in SeqToSet(producers[d])}
             overflow == /\ At("t1", "producerFinished_record")
                         /\ Top("t1").a = d
                         /\ Cardinality(finishedProducers[d])
                               >= Len(producers[d])
         IN  (unknown \/ overflow) =>
                 /\ stack'["t1"] = <<Failed>>
                 /\ status' = status
                 /\ finishedProducers' = finishedProducers
                 /\ dcLog' = dcLog]_vars

\* C27 witness: only producerFinished was called on B and only with uids of
\* its producers; every producer is recorded, B is COMPLETED and a consumer
\* was notified, and the last report has raised.
OverFinishingRaised ==
    /\ Idle("t1") /\ outcome["t1"] = "raised"
    /\ producers["B"] # <<>>
    /\ finishedProducers["B"] = {uid(p) : p \in SeqToSet(producers["B"])}
    /\ called["B"] = {"producerFinished"}
    /\ pfCalled["B"] = finishedProducers["B"]
    /\ status["B"] = "COMPLETED"
    /\ \E c \in Objs : dcLog[c] # <<>>

\* The uids of the waiters of q, in the order of their registration.
WaiterUids(q) == [i \in 1..Len(waiters[q]) |-> waiters[q][i].uid]

\* The command of q with the placeholder of every waiter's uid replaced by
\* the address the waiter's target has published, wrapped inside bash.
CommandWithAddresses(q) ==
    <<Text("/bin/bash -c")>> \o
    [i \in 1..Len(command[q]) |->
        IF \E j \in 1..Len(waiters[q]) :
               command[q][i] = Placeholder(waiters[q][j].uid)
        THEN LET j == CHOOSE j \in 1..Len(waiters[q]) :
                         command[q][i] = Placeholder(waiters[q][j].uid)
             IN  Text(containerIp[waiters[q][j].target])
        ELSE command[q][i]]

\* C28 (SpecDocker): when a DockerApp creates its container, every DockerApp
\* it has a waiter for has published its address, and the command handed to
\* create_container has the placeholder of each of them replaced by that
\* address; run passes its waiters in the order of their registration.
CreatedAfterPublication ==
    /\ [][\A q \in DockerApps :
            (created[q] = <<>> /\ created'[q] # <<>>) =>
                /\ \A i \in 1..Len(waiters[q]) :
                      /\ containerIp[waiters[q][i].target] # NoIp
                      /\ ~Contains(created'[q],
                                   Placeholder(waiters[q][i].uid))
                /\ created'[q] = CommandWithAddresses(q)]_vars
    /\ [](\A q \in DockerApps :
            /\ Len(waited[q]) <= Len(waiters[q])
            /\ waited[q] = SubSeq(WaiterUids(q), 1, Len(waited[q])))

\* C28 witness: DQ registered a waiter for DR and then one for DP, waited
\* for them in that order and created its container with both addresses.
CreatedWithBothAddresses ==
    /\ Len(waiters["DQ"]) = 2
    /\ waiters["DQ"][1].target = "DR" /\ waiters["DQ"][2].target = "DP"
    /\ waited["DQ"] = <<identity["DR"].uid, identity["DP"].uid>>
    /\ created["DQ"] # <<>>
    /\ Contains(created["DQ"], Text(containerIp["DP"]))
    /\ Contains(created["DQ"], Text(containerIp["DR"]))

\* C29 (SpecDockerFair): once DP has published its address, DQ has a waiter
\* for DP and DQ.run has started, DQ eventually creates its container.
PublishedLeadsToCreated ==
    (/\ containerIp["DP"] # NoIp
     /\ \E i \in 1..Len(waiters["DQ"]) : waiters["DQ"][i].target = "DP"
     /\ runAt["DQ"] # "idle")
        ~> (created["DQ"] # <<>>)

\* C30 (SpecDocker): handleInterest(drop) has registered a waiter for drop
\* exactly when drop is a DockerApp and the command contains the placeholder
\* carrying the oid of drop, and the command handed to create_container has
\* no placeholder left that carries the oid of a DockerApp waited for.
WaiterIffOidInCommand ==
    \A q \in DockerApps :
        /\ \A drop \in interested[q] :
              (\E i \in 1..Len(waiters[q]) : waiters[q][i].target = drop)
                 <=> (/\ isDockerApp(drop)
                      /\ Contains(command[q],
                                  Placeholder(identity[drop].oid)))
        /\ created[q] # <<>> =>
              \A i \in 1..waiterIdx[q] :
                  ~Contains(created[q],
                            Placeholder(identity[waiters[q][i].target].oid))

\* C31 (SpecDockerExec): once execute has set the status to COMPLETED after
\* the container exited, execStatus is ERROR for an exit code other than 0
\* and FINISHED for 0; execute does not end before that; and after the exit
\* the container was removed once if removeContainer is true, never if not.
ExitCodeDecidesExecStatus ==
    \A x \in {"X", "Y"} :
        LET d == dockerOf(x)
            t == IF x = "X" THEN "t1" ELSE "t2"
        IN  exitCode[d] # None =>
              /\ status[x] = "COMPLETED" =>
                    execStatus[x] = IF exitCode[d] = 0 THEN "FINISHED"
                                    ELSE "ERROR"
              /\ Idle(t) =>
                    /\ status[x] = "COMPLETED"
                    /\ (exitCode[d] # 0) <=> (x \in execRaised)
              /\ Count("remove_container", clientLog[d])
                    = IF removeContainer[d] THEN 1 ELSE 0

\* C31 witness: X's container, kept, exited with 1 and execute raised with
\* ERROR; Y's container exited with 0 and was removed, Y is FINISHED.
OneFailedOneFinished ==
    /\ Idle("t1") /\ Idle("t2")
    /\ exitCode["DP"] = 1 /\ ~removeContainer["DP"]
    /\ execStatus["X"] = "ERROR" /\ status["X"] = "COMPLETED"
    /\ outcome["t1"] = "raised"
    /\ exitCode["DQ"] = 0 /\ removeContainer["DQ"]
    /\ execStatus["Y"] = "FINISHED" /\ status["Y"] = "COMPLETED"
    /\ Count("remove_container", clientLog["DQ"]) = 1

\* The child c is a FileDROP or a DirectoryContainer placed directly in the
\* directory of k.
DirectlyIn(k, c) ==
    /\ nodeClass[c] \in {"FileDROP", "DirectoryContainer"}
    /\ dirname(path[c]) = path[k]

\* C32 (SpecDirectory): a DirectoryContainer has among its children, and is
\* after a call the parent of, only a FileDROP or a DirectoryContainer
\* whose path lies directly in its own; the step that rejects another child
\* raises and leaves the children and the parents unchanged.
OnlyDirectChildrenAccepted ==
    /\ [](\A k \in Containers, n \in Nodes :
            /\ InSeq(n, children[k]) => DirectlyIn(k, n)
            /\ (Idle("t1") /\ parent[n] = k) => DirectlyIn(k, n))
    /\ [][(/\ At("t1", "addChild")
            /\ ~DirectlyIn(Top("t1").a, Top("t1").b))
              => (/\ children' = children /\ parent' = parent
                  /\ stack'["t1"] # <<>>
                  /\ Head(stack'["t1"]).op \in {"failed", "parent_restore"})
       ]_vars

\* C32 witness: the file A lies directly in K and not in L; L.addChild(A)
\* was rejected after K accepted A.
ChildElsewhereRejected ==
    /\ Idle("t1") /\ outcome["t1"] = "raised"
    /\ nodeClass["A"] = "FileDROP"
    /\ dirname(path["A"]) = path["K"] /\ dirname(path["A"]) # path["L"]
    /\ InSeq("A", children["K"]) /\ parent["A"] = "K"
    /\ children["L"] = <<>>

\* C33 (SpecChain): run is called with execStatus RUNNING and before any
\* output was notified; the closures pass on FINISHED or ERROR only, never
\* RUNNING; and when run returned normally, an output is notified only once
\* execStatus is FINISHED, and the status of the application is COMPLETED
\* only after each output received exactly one producerFinished(app.uid).
ExecuteNotifiesThenCompletes ==
    \A x \in BarrierApps :
        /\ \A i \in 1..Len(pfSent[x]) :
              pfSent[x][i].execStatus \in {"FINISHED", "ERROR"}
        /\ \A t \in Threads :
              (At(t, "run") /\ Top(t).a = x) =>
                  (execStatus[x] = "RUNNING" /\ pfSent[x] = <<>>)
        /\ x \notin runRaised =>
              /\ pfSent[x] # <<>> => execStatus[x] = "FINISHED"
              /\ status[x] = "COMPLETED" =>
                    /\ execStatus[x] = "FINISHED"
                    /\ \A o \in SeqToSet(outputs[x]) :
                          /\ Cardinality({i \in 1..Len(pfSent[x]) :
                                             pfSent[x][i].output = o}) = 1
                          /\ uid(x) \in pfCalled[o]

\* C33 witness: run of X returned, B was notified once, with FINISHED, and
\* X is COMPLETED.
OutputNotifiedBeforeCompleted ==
    /\ "X" \notin runRaised
    /\ status["X"] = "COMPLETED" /\ execStatus["X"] = "FINISHED"
    /\ pfSent["X"] = <<[output |-> "B", execStatus |-> "FINISHED"]>>
    /\ status["B"] = "COMPLETED"

\* C34 (SpecProducers): with the producers of B reporting concurrently, each
\* once, no call raises; setCompleted is entered by one call only, the one
\* that recorded the last report; and when all calls are over every
\* producer is recorded and B is COMPLETED.
ConcurrentReportsCompleteOnce ==
    LET reporters == {"t1", "t2", "w1"}
        entered == {t \in reporters :
                       \E i \in 1..Len(stack[t]) :
                           stack[t][i].op = "setCompleted"}
    IN  /\ \A t \in reporters :
              /\ outcome[t] # "raised"
              /\ ~At(t, "failed")
        /\ Cardinality(entered) <= 1
        /\ entered # {} =>
              /\ status["B"] = "INITIALIZED"
              /\ Cardinality(finishedProducers["B"]) = Len(producers["B"])
        /\ (\A t \in reporters : outcome[t] = "returned" /\ Idle(t)) =>
              /\ finishedProducers["B"]
                    = {uid(p) : p \in SeqToSet(producers["B"])}
              /\ status["B"] = "COMPLETED"

\* C34 witness: the three calls have returned, the reports were recorded
\* while another call was still between its uid test and the lock.
AllReportsReturned ==
    /\ \A t \in {"t1", "t2", "w1"} : outcome[t] = "returned" /\ Idle(t)
    /\ Cardinality(finishedProducers["B"]) = 3
    /\ status["B"] = "COMPLETED"

\* C35 (SpecWriteRace): with write and setCompleted running concurrently on
\* B, the status of B, once COMPLETED, is never WRITING again, and no
\* 'status' event with the value WRITING is delivered to a subscriber once
\* the consumer has had its dropCompleted.
CompletedNeverWritingAgain ==
    [][/\ status["B"] = "COMPLETED" => status'["B"] # "WRITING"
       /\ \A t \in Clients :
             (/\ At(t, "status_fire") /\ Top(t).a = "B"
              /\ Top(t).v = "WRITING"
              /\ Top(t).n <= Len(statusSubs["B"])
              /\ stack'[t] # stack[t])
                => dcLog["P"] = <<>>]_vars

\* C24 (SpecContainer): once an assignment has made a container the parent
\* of a node, no later assignment makes another object its parent (the
\* setter's own restoration of the previous parent aside), and no node is
\* among the children of two containers.
ParentWriteOnce ==
    [][/\ \A n \in Nodes :
             (/\ ~At("t1", "parent_restore")
              /\ parent[n] \in Containers /\ parent'[n] # NoParent)
                => parent'[n] = parent[n]
       /\ \A n \in Nodes, k1 \in Containers, k2 \in Containers :
             (InSeq(n, children'[k1]) /\ InSeq(n, children'[k2]))
                => k1 = k2]_vars

\* C25 (SpecContainer): once the call that creates the edge has ended, from
\* either side, the child is once among the children of its parent.
ChildAddedOnce ==
    Idle("t1") =>
        \A k \in Containers, n \in Nodes :
            /\ Count(n, children[k]) <= 1
            /\ (parent[n] = k /\ n # k) => Count(n, children[k]) = 1

\* C26 (SpecContainer): between the calls, no container has its parent
\* among its children, and none is its own child.
NoParentAmongChildren ==
    Idle("t1") =>
        \A k \in Containers :
            ~InSeq(parent[k], children[k]) /\ ~InSeq(k, children[k])

\* The calls of dropCompleted that consumer c has had for the drop of uid u.
CompletionsSeen(c, u) == Len(SelectSeq(dcLog[c], LAMBDA e : e.uid = u))

\* The frames of thread t that notify somebody: a status event being
\* delivered or a dropCompleted call.
Notifying(t) ==
    {i \in 1..Len(stack[t]) :
        stack[t][i].op \in {"status_fire", "dropCompleted",
                            "setCompleted_streaming"}}

\* C36 (SpecDrop): setCompleted on a drop that is neither INITIALIZED nor
\* WRITING raises and changes nothing: the status stays, no status event and
\* no dropCompleted is started; a COMPLETED drop stays COMPLETED whatever is
\* called on it afterwards (the producerFinished of its last producer
\* included), and no consumer, normal or streaming, has dropCompleted for it
\* twice.
RejectedSetCompletedNotifiesNobody ==
    /\ [][/\ (At("t1", "setCompleted")
              /\ status[Top("t1").a] \notin {"INITIALIZED", "WRITING"})
                => /\ status' = status
                   /\ dcLog' = dcLog
                   /\ completedInputs' = completedInputs
                   /\ Len(stack'["t1"]) < Len(stack["t1"])
                   /\ Notifying("t1")' = {}
          /\ status["B"] = "COMPLETED" => status'["B"] = "COMPLETED"]_vars
    /\ [](\A c \in {"P", "Q", "S"} : CompletionsSeen(c, uid("B")) <= 1)

\* C36 witness: only setCompleted and producerFinished were called on B, both
\* producers have reported, the last call raised and every consumer has had
\* dropCompleted once.
LateLastReportRaised ==
    /\ Idle("t1")
    /\ called["B"] = {"setCompleted", "producerFinished"}
    /\ status["B"] = "COMPLETED"
    /\ Cardinality(finishedProducers["B"]) = Len(producers["B"])
    /\ outcome["t1"] = "raised"
    /\ \A c \in {"P", "Q", "S"} : CompletionsSeen(c, uid("B")) = 1

\* The calls run() makes up to the point where it blocks on the container's
\* exit, in the order of the code.
RunOrder ==
    <<"create_container", "start", "inspect_container", "containerIp", "wait">>

\* C37 (SpecDocker): run() creates the container, starts it, inspects it,
\* publishes containerIp and then waits for the exit, in this order; the
\* address is published exactly from the inspection on, that is after the
\* start, and while run() has not yet waited for the exit the container has
\* no exit code.
AddressPublishedBeforeWait ==
    \A o \in DockerApps :
        /\ \A i \in 1..Len(clientLog[o]) :
              i <= Len(RunOrder) => clientLog[o][i] = RunOrder[i]
        /\ containerIp[o] # NoIp
              <=> /\ Len(clientLog[o]) >= 4
                  /\ runAt[o] \in {"running", "returned", "raised"}
        /\ runAt[o] = "running"
              => /\ exitCode[o] = None
                 /\ Len(clientLog[o]) = 4
        /\ exitCode[o] # None => Len(clientLog[o]) >= Len(RunOrder)

\* C37 witness: DQ, whose command refers to DP, has created its container
\* with the address of DP while DP's container is still running.
PeerStartedWhileRunning ==
    /\ runAt["DP"] = "running"
    /\ exitCode["DP"] = None
    /\ waited["DQ"] # <<>>
    /\ created["DQ"] # <<>>
    /\ Contains(created["DQ"], Text(containerIp["DP"]))

\* C38 (SpecWire): between the wiring calls, also the ones that raised, no
\* application holds a DROP both among its inputs and among its streaming
\* inputs, every input of an application has it among its consumers and
\* every streaming input has it among its streaming consumers.
InputsMirrorConsumers ==
    \A a \in WireObjs, d \in WireObjs :
        /\ ~(InSeq(d, inputs[a]) /\ InSeq(d, streamingInputs[a]))
        /\ InSeq(d, inputs[a]) => InSeq(a, consumers[d])
        /\ InSeq(d, streamingInputs[a]) => InSeq(a, streamingConsumers[d])

\* C39 (SpecLateWire): once A and B are both inputs of the barrier X and both
\* COMPLETED, the execution of X is eventually scheduled, also when A was
\* COMPLETED before it was wired to X.
LateWiredBarrierExecutes ==
    (/\ InSeq("A", inputs["X"]) /\ InSeq("B", inputs["X"])
     /\ AllInputsAreCompleted("X"))
        ~> execScheduled["X"] > 0

\* C40 (SpecDockerWait): a run() that has reached its waiters eventually
\* returns or raises, also when the application it waits for failed before
\* publishing its address or waits for this one in turn.
WaitingRunEnds ==
    \A o \in {"DP", "DQ"} :
        (runAt[o] = "waiters") ~> (runAt[o] \in {"returned", "raised"})

====
